---- MODULE Spec2Model ----
(***************************************************************************)
(* Move classification, tactical motif detection and post-game analysis of *)
(* ollama-voice-chess (src/server/analysis.py, src/server/tactics.py,      *)
(* src/server/engine.py).                                                  *)
(*                                                                         *)
(* Numbers.  Evaluations are Python floats counted in pawns.  A float is   *)
(* modelled as the IEEE-754 double it is, so that a difference such as     *)
(* -6.1 - -16.1 is the double just above 10 and the text of 0.25 to one    *)
(* decimal is 0.2.  Float(50) is the integer literal 50 of the source      *)
(* where it meets a float, Dec(-51) is the float literal -0.51.            *)
(*                                                                         *)
(* Strings that the code inspects character by character (evaluator score  *)
(* strings) are sequences of one-character strings.                        *)
(***************************************************************************)
EXTENDS Integers, Sequences, FiniteSets, TLC

VARIABLES
    pc,         \* the operation in progress and its position
    cm_args,    \* classify_move: the six arguments of the call
    cm_result,  \* classify_move: the returned label, None before the call
    _engine,    \* engine.py: the global ChessEngine, None until get_engine
    pgn_text,   \* analyze_game: the game record, a sequence of tokens
    game,       \* analyze_game: what chess.pgn.read_game returned
    board,      \* analyze_game: the working board, as the moves pushed on it
    moves_analysis,     \* analyze_game: the MoveAnalysis list
    white_blunders, white_mistakes, white_inaccuracies,
    black_blunders, black_mistakes, black_inaccuracies,
    critical_moments,
    move_number,
    prev_eval,
    it,         \* analyze_game: the locals of the current loop iteration
    queries,    \* the evaluator queries issued so far, in order
    ret,        \* analyze_game: the returned value once pc = "done"
    evaluator,  \* a deterministic evaluator: its answer for the position
                \* after each number of moves; None when any answer may come
    results,    \* what the earlier calls of analyze_game returned
    threads,    \* concurrent analyses: each caller's position and handle
    sessions,   \* concurrent analyses: the ChessEngine objects created
    lifespan_engine,    \* main.py lifespan: its local engine, None without
                        \* the server
    position,   \* analyze_tactics: the chess.Board it is given
    motifs      \* analyze_tactics: the returned list of TacticalMotif

cmVars == <<cm_args, cm_result>>

counters == <<white_blunders, white_mistakes, white_inaccuracies,
              black_blunders, black_mistakes, black_inaccuracies>>

gameVars == <<_engine, pgn_text, game, board, moves_analysis, counters,
              critical_moments, move_number, prev_eval, it, queries, ret,
              evaluator, results>>

concVars == <<threads, sessions, lifespan_engine>>

tacticsVars == <<position, motifs>>

vars == <<pc, cmVars, gameVars, tacticsVars, concVars>>

\* Python's None.  An optional number or string x is carried as Some(x), so
\* that it can be compared with None.
None == <<>>

Some(x) == <<x>>

Value(opt) == opt[1]

\* chess.WHITE and chess.BLACK.
WHITE == TRUE
BLACK == FALSE

(***************************************************************************)
(* Python numbers.  An int is an integer.  A float is an IEEE-754 double:  *)
(* sign, significand and binary exponent, the significand a natural number *)
(* of 53 binary digits held as limbs.  Every operation gives the double    *)
(* nearest to the exact result, a tie going to the even significand.       *)
(***************************************************************************)
\* Natural numbers of any size: the limbs base 2^14, least significant
\* first, no zero limb at the top.
Base == 2 ^ 14

RECURSIVE Power(_, _)
Power(b, k) == IF k = 0 THEN 1 ELSE b * Power(b, k - 1)

Max(a, b) == IF a > b THEN a ELSE b

Min(a, b) == IF a < b THEN a ELSE b

\* n without the zero limbs at its top.
Trim(n) ==
    IF n = <<>> \/ n[Len(n)] # 0 THEN n
    ELSE IF \A i \in 1..Len(n) : n[i] = 0 THEN <<>>
    ELSE SubSeq(n, 1, CHOOSE i \in 1..Len(n) :
                          n[i] # 0 /\ \A j \in (i + 1)..Len(n) : n[j] = 0)

RECURSIVE BigNat(_)
BigNat(n) == IF n = 0 THEN <<>> ELSE <<n % Base>> \o BigNat(n \div Base)

RECURSIVE SmallBits(_)
SmallBits(n) == IF n = 0 THEN 0 ELSE 1 + SmallBits(n \div 2)

\* The powers of two below the base, and the binary digits of each limb.
PowerOfTwo == [k \in 0..13 |-> Power(2, k)]

LimbBits == [n \in 0..(Base - 1) |-> SmallBits(n)]

\* The number of binary digits of n.
BitLen(n) == IF n = <<>> THEN 0 ELSE (Len(n) - 1) * 14 + LimbBits[n[Len(n)]]

\* The arithmetic of the limbs works on the two halves of a number, the
\* carry of one half going into the other.
Low(n) == SubSeq(n, 1, Len(n) \div 2)

High(n) == SubSeq(n, Len(n) \div 2 + 1, Len(n))

Zeros(k) == [i \in 1..k |-> 0]

\* The first len limbs of n, zeros where it has none.
Pad(n, len) ==
    IF Len(n) >= len THEN SubSeq(n, 1, len) ELSE n \o Zeros(len - Len(n))

\* The limbs of n * k + carry at the places of n, and the carry out of them.
RECURSIVE MulLimbs(_, _, _)
MulLimbs(n, k, carry) ==
    IF n = <<>> THEN [limbs |-> <<>>, carry |-> carry]
    ELSE IF Len(n) = 1
    THEN [limbs |-> <<(n[1] * k + carry) % Base>>,
          carry |-> (n[1] * k + carry) \div Base]
    ELSE LET Both(lo, hi) ==
                 [limbs |-> lo.limbs \o hi.limbs, carry |-> hi.carry]
             Upper(lo) == Both(lo, MulLimbs(High(n), k, lo.carry))
         IN  Upper(MulLimbs(Low(n), k, carry))

\* The limbs of a sum or product with the carry out of them on top.
Whole(p) == p.limbs \o BigNat(p.carry)

\* n * k + carry for a small k.
MulSmall(n, k, carry) == Whole(MulLimbs(n, k, carry))

Reverse(s) == [i \in 1..Len(s) |-> s[Len(s) + 1 - i]]

\* Long division of r * Base^Len(n) + n by a small d, for r < d: the limbs
\* of the quotient from the top down, and the remainder.
RECURSIVE DivLimbs(_, _, _)
DivLimbs(n, d, r) ==
    IF n = <<>> THEN [q |-> <<>>, r |-> r]
    ELSE IF Len(n) = 1
    THEN [q |-> <<(r * Base + n[1]) \div d>>, r |-> (r * Base + n[1]) % d]
    ELSE LET Both(hi, lo) == [q |-> hi.q \o lo.q, r |-> lo.r]
             Lower(hi) == Both(hi, DivLimbs(Low(n), d, hi.r))
         IN  Lower(DivLimbs(High(n), d, r))

\* A quotient from the top down turned least significant limb first.
Upright(dm) == [q |-> Reverse(dm.q), r |-> dm.r]

\* Quotient (untrimmed) and remainder of n by a small d.
DivModSmall(n, d) == Upright(DivLimbs(n, d, 0))

\* The limbs of a + b + carry for a and b of one length, and the carry out.
RECURSIVE AddLimbs(_, _, _)
AddLimbs(a, b, carry) ==
    IF a = <<>> THEN [limbs |-> <<>>, carry |-> carry]
    ELSE IF Len(a) = 1
    THEN [limbs |-> <<(a[1] + b[1] + carry) % Base>>,
          carry |-> (a[1] + b[1] + carry) \div Base]
    ELSE LET Both(lo, hi) ==
                 [limbs |-> lo.limbs \o hi.limbs, carry |-> hi.carry]
             Upper(lo) == Both(lo, AddLimbs(High(a), High(b), lo.carry))
         IN  Upper(AddLimbs(Low(a), Low(b), carry))

AddBig(a, b, carry) ==
    Whole(AddLimbs(Pad(a, Max(Len(a), Len(b))), Pad(b, Max(Len(a), Len(b))), carry))

\* The limbs of a - b - borrow for a and b of one length, and the borrow out.
RECURSIVE SubLimbs(_, _, _)
SubLimbs(a, b, borrow) ==
    IF a = <<>> THEN [limbs |-> <<>>, borrow |-> borrow]
    ELSE IF Len(a) = 1
    THEN [limbs |-> <<(a[1] - b[1] - borrow) % Base>>,
          borrow |-> IF a[1] - b[1] - borrow < 0 THEN 1 ELSE 0]
    ELSE LET Both(lo, hi) ==
                 [limbs |-> lo.limbs \o hi.limbs, borrow |-> hi.borrow]
             Upper(lo) == Both(lo, SubLimbs(High(a), High(b), lo.borrow))
         IN  Upper(SubLimbs(Low(a), Low(b), borrow))

\* a - b - borrow for a >= b + borrow, untrimmed.
SubBig(a, b, borrow) == SubLimbs(a, Pad(b, Len(a)), borrow).limbs

\* -1, 0 or 1 as a is below, equal to or above b.
CmpBig(a, b) ==
    IF Len(a) # Len(b) THEN (IF Len(a) < Len(b) THEN -1 ELSE 1)
    ELSE IF a = b THEN 0
    ELSE LET top == CHOOSE i \in 1..Len(a) :
                        a[i] # b[i] /\ \A j \in (i + 1)..Len(a) : a[j] = b[j]
         IN  IF a[top] < b[top] THEN -1 ELSE 1

\* n * 2^s.
ShiftLeft(n, s) ==
    IF n = <<>> THEN <<>>
    ELSE Zeros(s \div 14) \o MulSmall(n, PowerOfTwo[s % 14], 0)

\* floor(n / 2^s), and whether bits were lost.
ShiftRight(n, s) ==
    LET Shifted(low, dm) ==
            [q |-> Trim(dm.q), lost |-> dm.r # 0 \/ Trim(low) # <<>>]
    IN  Shifted(SubSeq(n, 1, Min(s \div 14, Len(n))),
                DivModSmall(SubSeq(n, Min(s \div 14, Len(n)) + 1, Len(n)),
                            PowerOfTwo[s % 14]))

\* q / 2 rounded to the nearest integer, a tie to the even one; above tells
\* that the exact value lies above q.
RoundHalf(q, above) ==
    LET Nearer(half) ==
            IF q # <<>> /\ q[1] % 2 = 1
                 /\ (above \/ (half # <<>> /\ half[1] % 2 = 1))
            THEN AddBig(half, <<>>, 1) ELSE half
    IN  Nearer(ShiftRight(q, 1).q)

\* n / 2^s rounded to the nearest integer, a tie to the even one; sticky
\* tells that the exact value lies above n.
RoundShift(n, s, sticky) ==
    IF s = 0 THEN n
    ELSE LET Halved(sr) == RoundHalf(sr.q, sr.lost \/ sticky)
         IN  Halved(ShiftRight(n, s - 1))

\* A float: cls is "num", "inf" or "nan"; a number is man * 2^exp with
\* man of 53 binary digits, or man = 0 and exp = 0; neg is the sign bit.
Double(neg, man, exp) == [cls |-> "num", neg |-> neg, man |-> man, exp |-> exp]

Inf(neg) == [cls |-> "inf", neg |-> neg, man |-> <<>>, exp |-> 0]

NaN == [cls |-> "nan", neg |-> FALSE, man |-> <<>>, exp |-> 0]

\* The limb of t at place i, 0 above its top.
LimbAt(t, i) == IF i <= Len(t) THEN t[i] ELSE 0

\* The limb k with d * k <= t < d * (k + 1), for t < d * Base and a d whose
\* top limb is Base / 2 at least: the quotient of the two top limbs of t by
\* the top limb of d is k, k + 1 or k + 2 (Knuth, The Art of Computer
\* Programming, 4.3.1, theorem B).
QuotientLimb(t, d) ==
    LET Near(guess) ==
            CHOOSE k \in Max(guess - 2, 0)..guess :
                /\ CmpBig(Trim(MulSmall(d, k, 0)), t) <= 0
                /\ k = guess \/ CmpBig(MulSmall(d, k + 1, 0), t) > 0
    IN  Near(Min((LimbAt(t, Len(d) + 1) * Base + LimbAt(t, Len(d))) \div d[Len(d)],
                 Base - 1))

\* Long division of r * Base^Len(n) + n by d, for r < d, both of any size
\* and the top limb of d Base / 2 at least: the limbs of the quotient from
\* the top down, and the remainder.
RECURSIVE DivBigLimbs(_, _, _)
DivBigLimbs(n, d, r) ==
    IF n = <<>> THEN [q |-> <<>>, r |-> r]
    ELSE IF Len(n) = 1
    THEN LET Limb(t, k) ==
                 [q |-> <<k>>, r |-> Trim(SubBig(t, MulSmall(d, k, 0), 0))]
             Place(t) == Limb(t, QuotientLimb(t, d))
         IN  Place(Trim(n \o r))
    ELSE LET Both(hi, lo) == [q |-> hi.q \o lo.q, r |-> lo.r]
             Lower(hi) == Both(hi, DivBigLimbs(Low(n), d, hi.r))
         IN  Lower(DivBigLimbs(High(n), d, r))

\* Quotient (untrimmed) and remainder of n by d, both of any size, d not
\* zero: both are moved up by the binary digits that the top limb of d
\* lacks, and the remainder is moved back.
DivModBig(n, d) ==
    LET Back(s, dm) == [q |-> Reverse(dm.q), r |-> ShiftRight(dm.r, s).q]
        Moved(s) == Back(s, DivBigLimbs(ShiftLeft(n, s), ShiftLeft(d, s), <<>>))
    IN  Moved(14 - LimbBits[d[Len(d)]])

\* The double of the significand m and the exponent e, m of 53 binary
\* digits or, when the rounding carried, of 54; one above the largest
\* double is infinite.
Packed(neg, m, e) ==
    IF m = <<>> THEN Double(neg, <<>>, 0)
    ELSE IF BitLen(m) = 54
    THEN (IF e + 53 > 1023 THEN Inf(neg) ELSE Double(neg, ShiftRight(m, 1).q, e + 1))
    ELSE IF e + 52 > 1023 THEN Inf(neg)
    ELSE Double(neg, m, e)

\* The double nearest to a value between q * 2^e and (q + 1) * 2^e, equal
\* to q * 2^e unless above; a tie goes to the even significand, a value
\* below 2^-1022 keeps the exponent -1074.  A q with `above` has at least
\* 55 binary digits.
Nearest(neg, q, above, e) ==
    LET Dropping(drop) ==
            Packed(neg,
                   IF drop >= 0 THEN RoundShift(q, drop, above)
                   ELSE ShiftLeft(q, -drop),
                   e + drop)
    IN  Dropping(Max(BitLen(q) - 53, -1074 - e))

\* The double nearest to n * 2^e / d for a small d.
Round(neg, n, e, d) ==
    IF n = <<>> THEN Double(neg, <<>>, 0)
    ELSE LET Quotient(s, dm) == Nearest(neg, Trim(dm.q), dm.r # 0, e - s)
             Shifted(s) == Quotient(s, DivModSmall(ShiftLeft(n, s), d))
         IN  Shifted(Max(55 + SmallBits(d) - BitLen(n), 0))

\* The double nearest to n * 2^e / d for a d of any size.
RoundBig(neg, n, e, d) ==
    IF n = <<>> THEN Double(neg, <<>>, 0)
    ELSE LET Quotient(s, dm) == Nearest(neg, Trim(dm.q), dm.r # <<>>, e - s)
             Shifted(s) == Quotient(s, DivModBig(ShiftLeft(n, s), d))
         IN  Shifted(Max(55 + BitLen(d) - BitLen(n), 0))

Abs(x) == IF x < 0 THEN -x ELSE x

\* float(n) of an int n, which a comparison or an operation of a float
\* with an int takes in its place.
Float(n) ==
    IF n = 0 THEN Double(FALSE, <<>>, 0)
    ELSE LET Normal(m) ==
                 Double(n < 0, ShiftLeft(m, 53 - BitLen(m)), BitLen(m) - 53)
         IN  Normal(BigNat(Abs(n)))

\* The true division n / d of two ints.
TrueDiv(n, d) == Round((n < 0) # (d < 0), BigNat(Abs(n)), 0, Abs(d))

FNeg(x) == [x EXCEPT !.neg = ~x.neg]

FAbs(x) == [x EXCEPT !.neg = FALSE]

IsZero(x) == x.cls = "num" /\ x.man = <<>>

\* The order of two numbers or infinities: -1, 0 or 1.
Magnitude(x, y) ==
    IF x.cls = "inf" \/ y.cls = "inf"
    THEN (IF x.cls = y.cls THEN 0 ELSE IF x.cls = "inf" THEN 1 ELSE -1)
    ELSE IF x.man = <<>> \/ y.man = <<>>
    THEN (IF x.man = y.man THEN 0 ELSE IF x.man = <<>> THEN -1 ELSE 1)
    ELSE IF x.exp # y.exp THEN (IF x.exp < y.exp THEN -1 ELSE 1)
    ELSE CmpBig(x.man, y.man)

Compare(x, y) ==
    IF IsZero(x) /\ IsZero(y) THEN 0
    ELSE IF x.neg # y.neg THEN (IF x.neg THEN -1 ELSE 1)
    ELSE IF x.neg THEN -Magnitude(x, y) ELSE Magnitude(x, y)

Ordered(x, y) == x.cls # "nan" /\ y.cls # "nan"

FLt(x, y) == Ordered(x, y) /\ Compare(x, y) < 0
FLe(x, y) == Ordered(x, y) /\ Compare(x, y) <= 0
FGt(x, y) == Ordered(x, y) /\ Compare(x, y) > 0
FGe(x, y) == Ordered(x, y) /\ Compare(x, y) >= 0
FEq(x, y) == Ordered(x, y) /\ Compare(x, y) = 0

\* The double nearest to the sum of a * 2^e, negative when xneg, and
\* b * 2^e, negative when yneg; c is the order of a and b.  A sum of
\* opposite numbers is +0.0.
AddAligned(xneg, a, yneg, b, e, c) ==
    Round(IF xneg = yneg \/ c > 0 THEN xneg ELSE c < 0 /\ yneg,
          IF xneg = yneg THEN AddBig(a, b, 0)
          ELSE IF c >= 0 THEN Trim(SubBig(a, b, 0))
          ELSE Trim(SubBig(b, a, 0)),
          e, 1)

\* The sum of two numbers that are not zero, their significands brought to
\* the smaller exponent e.
AddNumbers(x, y, e) ==
    LET Aligned(a, b) == AddAligned(x.neg, a, y.neg, b, e, CmpBig(a, b))
    IN  Aligned(ShiftLeft(x.man, x.exp - e), ShiftLeft(y.man, y.exp - e))

\* x + y.
FAdd(x, y) ==
    IF x.cls = "nan" \/ y.cls = "nan" THEN NaN
    ELSE IF x.cls = "inf" /\ y.cls = "inf"
    THEN (IF x.neg = y.neg THEN x ELSE NaN)
    ELSE IF x.cls = "inf" THEN x
    ELSE IF y.cls = "inf" THEN y
    ELSE IF x.man = <<>> /\ y.man = <<>> THEN Double(x.neg /\ y.neg, <<>>, 0)
    ELSE IF x.man = <<>> THEN y
    ELSE IF y.man = <<>> THEN x
    ELSE AddNumbers(x, y, Min(x.exp, y.exp))

FSub(x, y) == FAdd(x, FNeg(y))

\* x * k and x / k for a positive int k.
FMulInt(x, k) ==
    IF x.cls # "num" THEN x ELSE Round(x.neg, MulSmall(x.man, k, 0), x.exp, 1)

FDivInt(x, k) ==
    IF x.cls # "num" THEN x ELSE Round(x.neg, x.man, x.exp, k)

(***************************************************************************)
(* Text: Python's str(int), the '.1f' format, int(text) and float(text)    *)
(***************************************************************************)
Digits == <<"0", "1", "2", "3", "4", "5", "6", "7", "8", "9">>

\* The k decimal digits of n < 10^k.
RECURSIVE FixedChars(_, _)
FixedChars(n, k) ==
    IF k = 0 THEN <<>>
    ELSE Append(FixedChars(n \div 10, k - 1), Digits[(n % 10) + 1])

\* Digits without the zeros at their front.
LeadingZerosOff(ds) ==
    IF \A i \in 1..Len(ds) : ds[i] = "0" THEN <<>>
    ELSE SubSeq(ds, CHOOSE i \in 1..Len(ds) :
                        ds[i] # "0" /\ \A j \in 1..(i - 1) : ds[j] = "0", Len(ds))

\* n * b^k.
RECURSIVE Scale(_, _, _)
Scale(n, b, k) ==
    IF k = 0 \/ n = <<>> THEN n
    ELSE IF k <= 4 THEN MulSmall(n, Power(b, k), 0)
    ELSE Scale(Scale(n, b, k \div 2), b, k - k \div 2)

\* The k decimal digits of n < 10^k: those of a long number are the digits
\* of its quotient and of its remainder by a power of ten in the middle.
RECURSIVE DecimalChars(_, _)
DecimalChars(n, k) ==
    IF n = <<>> THEN [i \in 1..k |-> "0"]
    ELSE IF k <= 4 THEN FixedChars(n[1], k)
    ELSE LET Halves(dm) ==
                 DecimalChars(Trim(dm.q), k - k \div 2) \o DecimalChars(dm.r, k \div 2)
         IN  Halves(DivModBig(n, Scale(<<1>>, 10, k \div 2)))

\* str(n) of a natural number of any size, <<>> for 0; a number of b
\* binary digits has no more than 31 * b / 100 + 1 decimal digits.
BigToChars(n) == LeadingZerosOff(DecimalChars(n, (BitLen(n) * 31) \div 100 + 1))

\* The digits of a number of tenths with the point before the last one, at
\* least one digit before the point.
PointTenths(ds) ==
    IF Len(ds) < 2 THEN <<"0", ".">> \o (IF ds = <<>> THEN <<"0">> ELSE ds)
    ELSE SubSeq(ds, 1, Len(ds) - 1) \o <<".", ds[Len(ds)]>>

\* ten * 2^e rounded to an integer.
Tenths(ten, e) ==
    IF e >= 0 THEN ShiftLeft(ten, e) ELSE RoundShift(ten, -e, FALSE)

\* f"{x:.1f}".
Format1f(x) ==
    IF x.cls = "nan" THEN <<"n", "a", "n">>
    ELSE (IF x.neg THEN <<"-">> ELSE <<>>)
            \o (IF x.cls = "inf" THEN <<"i", "n", "f">>
                ELSE PointTenths(BigToChars(Tenths(MulSmall(x.man, 10, 0), x.exp))))

\* A text is the sequence of its characters, each a string: a printable
\* ASCII character, the tab, the line feed, the form feed and the carriage
\* return stand for themselves, every other character is written by its
\* code point, as "U+000B" for the vertical tab and "U+0967" for the
\* Devanagari digit one.
IsDigit(c) == \E i \in 1..10 : Digits[i] = c

DigitValue(c) == (CHOOSE i \in 1..10 : Digits[i] = c) - 1

RECURSIVE NatToChars(_)
NatToChars(n) ==
    IF n < 10 THEN <<Digits[n + 1]>>
    ELSE Append(NatToChars(n \div 10), Digits[(n % 10) + 1])

\* str(n) of a Python int, as f"M{mate_in}" uses it.
IntToChars(n) == IF n < 0 THEN <<"-">> \o NatToChars(-n) ELSE NatToChars(n)

\* The white space above U+007F (Unicode 14.0, the data of Python 3.11).
UnicodeSpaces ==
    {"U+0085", "U+00A0", "U+1680", "U+2000", "U+2001", "U+2002",
     "U+2003", "U+2004", "U+2005", "U+2006", "U+2007", "U+2008",
     "U+2009", "U+200A", "U+2028", "U+2029", "U+202F", "U+205F",
     "U+3000"}

\* The decimal digits above U+007F (Unicode 14.0): each row holds the digits
\* 0 to 9 of one script.
UnicodeDigits ==
    <<<<"U+0660", "U+0661", "U+0662", "U+0663", "U+0664", "U+0665", "U+0666", "U+0667", "U+0668", "U+0669">>,
      <<"U+06F0", "U+06F1", "U+06F2", "U+06F3", "U+06F4", "U+06F5", "U+06F6", "U+06F7", "U+06F8", "U+06F9">>,
      <<"U+07C0", "U+07C1", "U+07C2", "U+07C3", "U+07C4", "U+07C5", "U+07C6", "U+07C7", "U+07C8", "U+07C9">>,
      <<"U+0966", "U+0967", "U+0968", "U+0969", "U+096A", "U+096B", "U+096C", "U+096D", "U+096E", "U+096F">>,
      <<"U+09E6", "U+09E7", "U+09E8", "U+09E9", "U+09EA", "U+09EB", "U+09EC", "U+09ED", "U+09EE", "U+09EF">>,
      <<"U+0A66", "U+0A67", "U+0A68", "U+0A69", "U+0A6A", "U+0A6B", "U+0A6C", "U+0A6D", "U+0A6E", "U+0A6F">>,
      <<"U+0AE6", "U+0AE7", "U+0AE8", "U+0AE9", "U+0AEA", "U+0AEB", "U+0AEC", "U+0AED", "U+0AEE", "U+0AEF">>,
      <<"U+0B66", "U+0B67", "U+0B68", "U+0B69", "U+0B6A", "U+0B6B", "U+0B6C", "U+0B6D", "U+0B6E", "U+0B6F">>,
      <<"U+0BE6", "U+0BE7", "U+0BE8", "U+0BE9", "U+0BEA", "U+0BEB", "U+0BEC", "U+0BED", "U+0BEE", "U+0BEF">>,
      <<"U+0C66", "U+0C67", "U+0C68", "U+0C69", "U+0C6A", "U+0C6B", "U+0C6C", "U+0C6D", "U+0C6E", "U+0C6F">>,
      <<"U+0CE6", "U+0CE7", "U+0CE8", "U+0CE9", "U+0CEA", "U+0CEB", "U+0CEC", "U+0CED", "U+0CEE", "U+0CEF">>,
      <<"U+0D66", "U+0D67", "U+0D68", "U+0D69", "U+0D6A", "U+0D6B", "U+0D6C", "U+0D6D", "U+0D6E", "U+0D6F">>,
      <<"U+0DE6", "U+0DE7", "U+0DE8", "U+0DE9", "U+0DEA", "U+0DEB", "U+0DEC", "U+0DED", "U+0DEE", "U+0DEF">>,
      <<"U+0E50", "U+0E51", "U+0E52", "U+0E53", "U+0E54", "U+0E55", "U+0E56", "U+0E57", "U+0E58", "U+0E59">>,
      <<"U+0ED0", "U+0ED1", "U+0ED2", "U+0ED3", "U+0ED4", "U+0ED5", "U+0ED6", "U+0ED7", "U+0ED8", "U+0ED9">>,
      <<"U+0F20", "U+0F21", "U+0F22", "U+0F23", "U+0F24", "U+0F25", "U+0F26", "U+0F27", "U+0F28", "U+0F29">>,
      <<"U+1040", "U+1041", "U+1042", "U+1043", "U+1044", "U+1045", "U+1046", "U+1047", "U+1048", "U+1049">>,
      <<"U+1090", "U+1091", "U+1092", "U+1093", "U+1094", "U+1095", "U+1096", "U+1097", "U+1098", "U+1099">>,
      <<"U+17E0", "U+17E1", "U+17E2", "U+17E3", "U+17E4", "U+17E5", "U+17E6", "U+17E7", "U+17E8", "U+17E9">>,
      <<"U+1810", "U+1811", "U+1812", "U+1813", "U+1814", "U+1815", "U+1816", "U+1817", "U+1818", "U+1819">>,
      <<"U+1946", "U+1947", "U+1948", "U+1949", "U+194A", "U+194B", "U+194C", "U+194D", "U+194E", "U+194F">>,
      <<"U+19D0", "U+19D1", "U+19D2", "U+19D3", "U+19D4", "U+19D5", "U+19D6", "U+19D7", "U+19D8", "U+19D9">>,
      <<"U+1A80", "U+1A81", "U+1A82", "U+1A83", "U+1A84", "U+1A85", "U+1A86", "U+1A87", "U+1A88", "U+1A89">>,
      <<"U+1A90", "U+1A91", "U+1A92", "U+1A93", "U+1A94", "U+1A95", "U+1A96", "U+1A97", "U+1A98", "U+1A99">>,
      <<"U+1B50", "U+1B51", "U+1B52", "U+1B53", "U+1B54", "U+1B55", "U+1B56", "U+1B57", "U+1B58", "U+1B59">>,
      <<"U+1BB0", "U+1BB1", "U+1BB2", "U+1BB3", "U+1BB4", "U+1BB5", "U+1BB6", "U+1BB7", "U+1BB8", "U+1BB9">>,
      <<"U+1C40", "U+1C41", "U+1C42", "U+1C43", "U+1C44", "U+1C45", "U+1C46", "U+1C47", "U+1C48", "U+1C49">>,
      <<"U+1C50", "U+1C51", "U+1C52", "U+1C53", "U+1C54", "U+1C55", "U+1C56", "U+1C57", "U+1C58", "U+1C59">>,
      <<"U+A620", "U+A621", "U+A622", "U+A623", "U+A624", "U+A625", "U+A626", "U+A627", "U+A628", "U+A629">>,
      <<"U+A8D0", "U+A8D1", "U+A8D2", "U+A8D3", "U+A8D4", "U+A8D5", "U+A8D6", "U+A8D7", "U+A8D8", "U+A8D9">>,
      <<"U+A900", "U+A901", "U+A902", "U+A903", "U+A904", "U+A905", "U+A906", "U+A907", "U+A908", "U+A909">>,
      <<"U+A9D0", "U+A9D1", "U+A9D2", "U+A9D3", "U+A9D4", "U+A9D5", "U+A9D6", "U+A9D7", "U+A9D8", "U+A9D9">>,
      <<"U+A9F0", "U+A9F1", "U+A9F2", "U+A9F3", "U+A9F4", "U+A9F5", "U+A9F6", "U+A9F7", "U+A9F8", "U+A9F9">>,
      <<"U+AA50", "U+AA51", "U+AA52", "U+AA53", "U+AA54", "U+AA55", "U+AA56", "U+AA57", "U+AA58", "U+AA59">>,
      <<"U+ABF0", "U+ABF1", "U+ABF2", "U+ABF3", "U+ABF4", "U+ABF5", "U+ABF6", "U+ABF7", "U+ABF8", "U+ABF9">>,
      <<"U+FF10", "U+FF11", "U+FF12", "U+FF13", "U+FF14", "U+FF15", "U+FF16", "U+FF17", "U+FF18", "U+FF19">>,
      <<"U+104A0", "U+104A1", "U+104A2", "U+104A3", "U+104A4", "U+104A5", "U+104A6", "U+104A7", "U+104A8", "U+104A9">>,
      <<"U+10D30", "U+10D31", "U+10D32", "U+10D33", "U+10D34", "U+10D35", "U+10D36", "U+10D37", "U+10D38", "U+10D39">>,
      <<"U+11066", "U+11067", "U+11068", "U+11069", "U+1106A", "U+1106B", "U+1106C", "U+1106D", "U+1106E", "U+1106F">>,
      <<"U+110F0", "U+110F1", "U+110F2", "U+110F3", "U+110F4", "U+110F5", "U+110F6", "U+110F7", "U+110F8", "U+110F9">>,
      <<"U+11136", "U+11137", "U+11138", "U+11139", "U+1113A", "U+1113B", "U+1113C", "U+1113D", "U+1113E", "U+1113F">>,
      <<"U+111D0", "U+111D1", "U+111D2", "U+111D3", "U+111D4", "U+111D5", "U+111D6", "U+111D7", "U+111D8", "U+111D9">>,
      <<"U+112F0", "U+112F1", "U+112F2", "U+112F3", "U+112F4", "U+112F5", "U+112F6", "U+112F7", "U+112F8", "U+112F9">>,
      <<"U+11450", "U+11451", "U+11452", "U+11453", "U+11454", "U+11455", "U+11456", "U+11457", "U+11458", "U+11459">>,
      <<"U+114D0", "U+114D1", "U+114D2", "U+114D3", "U+114D4", "U+114D5", "U+114D6", "U+114D7", "U+114D8", "U+114D9">>,
      <<"U+11650", "U+11651", "U+11652", "U+11653", "U+11654", "U+11655", "U+11656", "U+11657", "U+11658", "U+11659">>,
      <<"U+116C0", "U+116C1", "U+116C2", "U+116C3", "U+116C4", "U+116C5", "U+116C6", "U+116C7", "U+116C8", "U+116C9">>,
      <<"U+11730", "U+11731", "U+11732", "U+11733", "U+11734", "U+11735", "U+11736", "U+11737", "U+11738", "U+11739">>,
      <<"U+118E0", "U+118E1", "U+118E2", "U+118E3", "U+118E4", "U+118E5", "U+118E6", "U+118E7", "U+118E8", "U+118E9">>,
      <<"U+11950", "U+11951", "U+11952", "U+11953", "U+11954", "U+11955", "U+11956", "U+11957", "U+11958", "U+11959">>,
      <<"U+11C50", "U+11C51", "U+11C52", "U+11C53", "U+11C54", "U+11C55", "U+11C56", "U+11C57", "U+11C58", "U+11C59">>,
      <<"U+11D50", "U+11D51", "U+11D52", "U+11D53", "U+11D54", "U+11D55", "U+11D56", "U+11D57", "U+11D58", "U+11D59">>,
      <<"U+11DA0", "U+11DA1", "U+11DA2", "U+11DA3", "U+11DA4", "U+11DA5", "U+11DA6", "U+11DA7", "U+11DA8", "U+11DA9">>,
      <<"U+16A60", "U+16A61", "U+16A62", "U+16A63", "U+16A64", "U+16A65", "U+16A66", "U+16A67", "U+16A68", "U+16A69">>,
      <<"U+16AC0", "U+16AC1", "U+16AC2", "U+16AC3", "U+16AC4", "U+16AC5", "U+16AC6", "U+16AC7", "U+16AC8", "U+16AC9">>,
      <<"U+16B50", "U+16B51", "U+16B52", "U+16B53", "U+16B54", "U+16B55", "U+16B56", "U+16B57", "U+16B58", "U+16B59">>,
      <<"U+1D7CE", "U+1D7CF", "U+1D7D0", "U+1D7D1", "U+1D7D2", "U+1D7D3", "U+1D7D4", "U+1D7D5", "U+1D7D6", "U+1D7D7">>,
      <<"U+1D7D8", "U+1D7D9", "U+1D7DA", "U+1D7DB", "U+1D7DC", "U+1D7DD", "U+1D7DE", "U+1D7DF", "U+1D7E0", "U+1D7E1">>,
      <<"U+1D7E2", "U+1D7E3", "U+1D7E4", "U+1D7E5", "U+1D7E6", "U+1D7E7", "U+1D7E8", "U+1D7E9", "U+1D7EA", "U+1D7EB">>,
      <<"U+1D7EC", "U+1D7ED", "U+1D7EE", "U+1D7EF", "U+1D7F0", "U+1D7F1", "U+1D7F2", "U+1D7F3", "U+1D7F4", "U+1D7F5">>,
      <<"U+1D7F6", "U+1D7F7", "U+1D7F8", "U+1D7F9", "U+1D7FA", "U+1D7FB", "U+1D7FC", "U+1D7FD", "U+1D7FE", "U+1D7FF">>,
      <<"U+1E140", "U+1E141", "U+1E142", "U+1E143", "U+1E144", "U+1E145", "U+1E146", "U+1E147", "U+1E148", "U+1E149">>,
      <<"U+1E2F0", "U+1E2F1", "U+1E2F2", "U+1E2F3", "U+1E2F4", "U+1E2F5", "U+1E2F6", "U+1E2F7", "U+1E2F8", "U+1E2F9">>,
      <<"U+1E950", "U+1E951", "U+1E952", "U+1E953", "U+1E954", "U+1E955", "U+1E956", "U+1E957", "U+1E958", "U+1E959">>,
      <<"U+1FBF0", "U+1FBF1", "U+1FBF2", "U+1FBF3", "U+1FBF4", "U+1FBF5", "U+1FBF6", "U+1FBF7", "U+1FBF8", "U+1FBF9">>>>

UnicodeDigitSet == UNION {{row[v] : v \in 1..10} : row \in {UnicodeDigits[r] : r \in 1..Len(UnicodeDigits)}}

\* The value of a decimal digit above U+007F.
UnicodeDecimal(c) ==
    CHOOSE v \in 0..9 : \E r \in 1..Len(UnicodeDigits) : UnicodeDigits[r][v + 1] = c

\* What int() and float() read in place of a character: a space for white
\* space above U+007F, the ASCII digit for a decimal digit of another
\* script.
ToASCII(c) ==
    IF c \in UnicodeSpaces THEN " "
    ELSE IF c \in UnicodeDigitSet THEN Digits[UnicodeDecimal(c) + 1]
    ELSE c

\* The text int() and float() parse.
TransformDecimalAndSpaceToASCII(cs) == [i \in 1..Len(cs) |-> ToASCII(cs[i])]

\* The ASCII white space that int() and float() skip at both ends: space,
\* tab, line feed, vertical tab, form feed, carriage return.  The file,
\* group, record and unit separators (U+001C to U+001F) are not skipped.
IsSpace(c) == c \in {" ", "\t", "\n", "U+000B", "\f", "\r"}

\* A text without the white space at its ends, Unicode white space
\* included.
StripASCII(cs) ==
    IF \A i \in 1..Len(cs) : IsSpace(cs[i]) THEN <<>>
    ELSE SubSeq(cs,
                CHOOSE i \in 1..Len(cs) :
                    ~IsSpace(cs[i]) /\ \A j \in 1..(i - 1) : IsSpace(cs[j]),
                CHOOSE i \in 1..Len(cs) :
                    ~IsSpace(cs[i]) /\ \A j \in (i + 1)..Len(cs) : IsSpace(cs[j]))

\* The number text of int(text) and float(text): the characters read as
\* ASCII, without the white space at the ends.
Strip(cs) == StripASCII(TransformDecimalAndSpaceToASCII(cs))

Unsigned(cs) ==
    IF cs # <<>> /\ cs[1] \in {"+", "-"} THEN Tail(cs) ELSE cs

Negative(cs) == cs # <<>> /\ cs[1] = "-"

\* Decimal digits with single underscores between them, in a text read as
\* ASCII.
DigitPart(cs) ==
    /\ cs # <<>>
    /\ IsDigit(cs[1]) /\ IsDigit(cs[Len(cs)])
    /\ \A i \in 1..Len(cs) : IsDigit(cs[i]) \/ cs[i] = "_"
    /\ \A i \in 1..(Len(cs) - 1) : ~(cs[i] = "_" /\ cs[i + 1] = "_")

\* The digits of a digit part, without leading zeros.
Significant(cs) == LeadingZerosOff(SelectSeq(cs, IsDigit))

\* A run of decimal digits read as a number of any size: the front half
\* moved up by the digits of the back half.
RECURSIVE DigitsValue(_)
DigitsValue(cs) ==
    IF cs = <<>> THEN <<>>
    ELSE IF Len(cs) = 1 THEN BigNat(DigitValue(cs[1]))
    ELSE AddBig(Scale(DigitsValue(Low(cs)), 10, Len(High(cs))),
                DigitsValue(High(cs)), 0)

\* sys.int_info.default_max_str_digits of CPython 3.11: int() raises
\* ValueError on a text of more decimal digits, leading zeros counted and
\* underscores not.
default_max_str_digits == 4300

\* The text after the sign is a digit part within the limit of int().
IntDigits(cs) ==
    DigitPart(cs) /\ Len(SelectSeq(cs, IsDigit)) <= default_max_str_digits

\* int(text) succeeds: white space around an optional sign and a digit part
\* of at most default_max_str_digits digits.
IsIntLiteral(cs) == IntDigits(Unsigned(Strip(cs)))

\* The sign of int(text): -1, 0 or 1.
IntSign(cs) ==
    IF Significant(Unsigned(Strip(cs))) = <<>> THEN 0
    ELSE IF Negative(Strip(cs)) THEN -1 ELSE 1

LowerCase(c) ==
    CASE c = "A" -> "a" [] c = "E" -> "e" [] c = "F" -> "f" [] c = "I" -> "i"
      [] c = "N" -> "n" [] c = "T" -> "t" [] c = "Y" -> "y" [] OTHER -> c

Lower(cs) == [i \in 1..Len(cs) |-> LowerCase(cs[i])]

First(cs, marks) ==
    IF \E i \in 1..Len(cs) : cs[i] \in marks
    THEN CHOOSE i \in 1..Len(cs) : cs[i] \in marks /\ \A j \in 1..(i - 1) : cs[j] \notin marks
    ELSE 0

\* A text cut at its place at: what stands before and after it, the whole
\* text before when at is 0.
Cut(cs, at) ==
    [found |-> at # 0,
     before |-> IF at = 0 THEN cs ELSE SubSeq(cs, 1, at - 1),
     after |-> IF at = 0 THEN <<>> ELSE SubSeq(cs, at + 1, Len(cs))]

\* The parts of a float text: sign, digits before and after the point,
\* exponent.
FloatParts(cs) ==
    LET Parts(s, scaling, pointing) ==
            [neg |-> Negative(s),
             word |-> Lower(Unsigned(s)),
             point |-> pointing.found,
             whole |-> pointing.before,
             frac |-> pointing.after,
             scaled |-> scaling.found,
             exponent |-> scaling.after]
        Mantissa(s, scaling) ==
            Parts(s, scaling, Cut(scaling.before, First(scaling.before, {"."})))
        Stripped(s) ==
            Mantissa(s, Cut(Unsigned(s), First(Unsigned(s), {"e", "E"})))
    IN  Stripped(Strip(cs))

Infinity == {<<"i", "n", "f">>, <<"i", "n", "f", "i", "n", "i", "t", "y">>}

\* float(text) succeeds on a text of these parts.
ValidParts(p) ==
    \/ p.word \in Infinity \cup {<<"n", "a", "n">>}
    \/ /\ IF p.point
          THEN /\ p.whole = <<>> \/ DigitPart(p.whole)
               /\ p.frac = <<>> \/ DigitPart(p.frac)
               /\ p.whole \o p.frac # <<>>
          ELSE DigitPart(p.whole)
       /\ p.scaled => DigitPart(Unsigned(p.exponent))

\* float(text) succeeds.
IsFloatLiteral(cs) == ValidParts(FloatParts(cs))

RECURSIVE SmallValue(_)
SmallValue(cs) ==
    IF cs = <<>> THEN 0
    ELSE SmallValue(SubSeq(cs, 1, Len(cs) - 1)) * 10 + DigitValue(cs[Len(cs)])

\* Digits without the zeros at their end.
TrailingZerosOff(ds) ==
    IF \A i \in 1..Len(ds) : ds[i] = "0" THEN <<>>
    ELSE SubSeq(ds, 1, CHOOSE i \in 1..Len(ds) :
                           ds[i] # "0" /\ \A j \in (i + 1)..Len(ds) : ds[j] = "0")

\* The double nearest to m * 10^power.
Decimal(neg, m, power) ==
    IF power >= -7
    THEN Round(neg, IF power >= 0 THEN Scale(m, 10, power) ELSE m,
               Min(power, 0), IF power >= 0 THEN 1 ELSE Power(5, -power))
    ELSE RoundBig(neg, m, power, Scale(<<1>>, 5, -power))

\* The double nearest to 0.d1d2... * 10^power for the digits ds = d1d2...
DecimalDigits(neg, ds, power) == Decimal(neg, DigitsValue(ds), power - Len(ds))

\* A natural number of any size e compared with the integer n: -1, 0 or 1.
CmpInt(e, n) == IF n < 0 THEN 1 ELSE CmpBig(e, BigNat(n))

\* The double nearest to 0.d1d2... * 10^(point + exponent) for digits
\* d1d2... that do not start with 0 and an exponent of any number of digits
\* ex, negative when eneg holds: zero when the number is below 10^-331,
\* less than half of every double, infinite when it is 10^310 or more,
\* above every double.
Scientific(neg, digits, point, eneg, ex) ==
    LET Sized(e) ==
            IF IF eneg THEN CmpInt(e, point + 330) > 0
               ELSE CmpInt(e, -330 - point) < 0
            THEN Double(neg, <<>>, 0)
            ELSE IF IF eneg THEN CmpInt(e, point - 310) < 0
                    ELSE CmpInt(e, 310 - point) > 0
            THEN Inf(neg)
            ELSE DecimalDigits(neg, TrailingZerosOff(digits),
                     point + (IF eneg THEN -SmallValue(ex) ELSE SmallValue(ex)))
    IN  IF digits = <<>> THEN Double(neg, <<>>, 0) ELSE Sized(DigitsValue(ex))

\* The double nearest to the number of the digits, all of whole and frac
\* without the zeros at the front, with the point after whole.
Pointed(neg, digits, frac, exponent) ==
    Scientific(neg, digits, Len(digits) - Len(frac), Negative(exponent),
               Significant(Unsigned(exponent)))

\* float(text) of a text of these parts.
PartsValue(p) ==
    IF p.word = <<"n", "a", "n">> THEN NaN
    ELSE IF p.word \in Infinity THEN Inf(p.neg)
    ELSE Pointed(p.neg, Significant(p.whole \o p.frac), SelectSeq(p.frac, IsDigit),
                 p.exponent)

\* float(text) of a text for which it succeeds: the double nearest to the
\* decimal number.
FloatValue(cs) == PartsValue(FloatParts(cs))

\* The float literal of h hundredths, as -0.51 for h = -51.
Dec(h) == TrueDiv(h, 100)

(***************************************************************************)
(* The variables while the operation they belong to is not modelled        *)
(***************************************************************************)
\* The variables of analyze_game while no analysis is modelled.
GameIdle ==
    /\ _engine = None
    /\ pgn_text = <<>>
    /\ game = None
    /\ board = <<>>
    /\ moves_analysis = <<>>
    /\ white_blunders = 0 /\ white_mistakes = 0 /\ white_inaccuracies = 0
    /\ black_blunders = 0 /\ black_mistakes = 0 /\ black_inaccuracies = 0
    /\ critical_moments = <<>>
    /\ move_number = 1
    /\ prev_eval = Float(0)
    /\ it = None
    /\ queries = <<>>
    /\ ret = None
    /\ evaluator = None
    /\ results = <<>>

\* The variables of the concurrent callers while none is modelled.
ConcIdle == threads = None /\ sessions = <<>> /\ lifespan_engine = None

\* The variables of classify_move while no call is modelled.
ClassifyIdle == cm_args = None /\ cm_result = None

\* The variables of analyze_tactics while no call is modelled.
TacticsIdle == position = None /\ motifs = <<>>

(***************************************************************************)
(* analysis.py: thresholds and classify_move                               *)
(***************************************************************************)
BLUNDER_THRESHOLD == 200
MISTAKE_THRESHOLD == 100
INACCURACY_THRESHOLD == 50

Classifications ==
    {"brilliant", "great", "best", "good", "book", "inaccuracy", "mistake", "blunder"}

\* classify_move comparing the change with its thresholds in pawns, the
\* unit its caller passes.
classify_move_in_pawns(eval_change, had_better_move, is_sacrifice, eval_before, eval_after, is_only_good_move) ==
    IF is_sacrifice /\ FGe(eval_change, Dec(50)) THEN "brilliant"
    ELSE IF is_only_good_move /\ FLt(eval_before, Dec(-100)) /\ FGt(eval_after, Float(0))
        THEN "brilliant"
    ELSE IF FGe(eval_change, Dec(100)) /\ ~had_better_move THEN "great"
    ELSE IF FGe(eval_change, Dec(-10))
        THEN (IF ~had_better_move THEN "best" ELSE "good")
    ELSE IF FGe(eval_change, Dec(-INACCURACY_THRESHOLD)) THEN "good"
    ELSE IF FGe(eval_change, Dec(-MISTAKE_THRESHOLD)) THEN "inaccuracy"
    ELSE IF FGe(eval_change, Dec(-BLUNDER_THRESHOLD)) THEN "mistake"
    ELSE "blunder"

\* classify_move with the sacrifice test of the first rule dropped.
classify_move_no_sacrifice_test(eval_change, had_better_move, is_sacrifice, eval_before, eval_after, is_only_good_move) ==
    IF FGe(eval_change, Float(50)) THEN "brilliant"
    ELSE IF is_only_good_move /\ FLt(eval_before, Float(-100)) /\ FGt(eval_after, Float(0))
        THEN "brilliant"
    ELSE IF FGe(eval_change, Float(100)) /\ ~had_better_move THEN "great"
    ELSE IF FGe(eval_change, Float(-10))
        THEN (IF ~had_better_move THEN "best" ELSE "good")
    ELSE IF FGe(eval_change, Float(-INACCURACY_THRESHOLD)) THEN "good"
    ELSE IF FGe(eval_change, Float(-MISTAKE_THRESHOLD)) THEN "inaccuracy"
    ELSE IF FGe(eval_change, Float(-BLUNDER_THRESHOLD)) THEN "mistake"
    ELSE "blunder"

\* Lines 57-106: the comparisons of the arguments, floats or ints, with the
\* int literals and the thresholds of the source.
classify_move(eval_change, had_better_move, is_sacrifice, eval_before, eval_after, is_only_good_move) ==
    IF is_sacrifice /\ FGe(eval_change, Float(50)) THEN "brilliant"
    ELSE IF is_only_good_move /\ FLt(eval_before, Float(-100)) /\ FGt(eval_after, Float(0))
        THEN "brilliant"
    ELSE IF FGe(eval_change, Float(100)) /\ ~had_better_move THEN "great"
    ELSE IF FGe(eval_change, Float(-10))
        THEN (IF ~had_better_move THEN "best" ELSE "good")
    ELSE IF FGe(eval_change, Float(-INACCURACY_THRESHOLD)) THEN "good"
    ELSE IF FGe(eval_change, Float(-MISTAKE_THRESHOLD)) THEN "inaccuracy"
    ELSE IF FGe(eval_change, Float(-BLUNDER_THRESHOLD)) THEN "mistake"
    ELSE "blunder"

(***************************************************************************)
(* engine.py: ChessEngine._format_score, get_best_move, get_engine         *)
(***************************************************************************)
\* chess.engine.PovScore.white(): the score from White's point of view.
PovWhite(score) ==
    IF score.turn = WHITE THEN score.relative
    ELSE [score.relative EXCEPT !.v = -score.relative.v]

_format_score(score) ==
    IF score = None THEN <<"0", ".", "0">>
    ELSE LET pov_score == PovWhite(score)
         IN  IF pov_score.kind = "mate"
             THEN <<"M">> \o IntToChars(pov_score.v)
             ELSE Format1f(TrueDiv(pov_score.v, 100))

\* The engine raised (EngineError, a dead process, a timeout).
EngineError == [error |-> TRUE]

\* The first move of a principal variation: its SAN on the board asked
\* about, and whether it is legal there; board.san raises on a move that is
\* not.
PvMove(san) == [san |-> san, legal |-> TRUE]

IllegalMove == [san |-> "", legal |-> FALSE]

\* get_best_move with a fallback that works: an answer without a principal
\* variation gives a result with the score of the answer.
get_best_move_score_without_pv(engine, answer) ==
    IF engine = None \/ ~engine.running THEN None
    ELSE IF answer = EngineError THEN None
    ELSE IF answer.pv = None
        THEN [move |-> "", score |-> _format_score(answer.score)]
    ELSE IF ~Value(answer.pv).legal THEN None
    ELSE [move |-> Value(answer.pv).san, score |-> _format_score(answer.score)]

\* get_best_move on an engine whose analyse call answered `answer`:
\* EngineError when it raised, else the info dictionary it returned, with
\* pv the first move of the principal variation (None without one).
\* Without a principal variation the fallback rebinds result to the
\* PlayResult of engine.play, which has no get(): the AttributeError is
\* caught with every other exception and None is returned, as it is when
\* board.san raises on the first move of the principal variation.
get_best_move(engine, answer) ==
    IF engine = None \/ ~engine.running THEN None
    ELSE IF answer = EngineError THEN None
    ELSE IF answer.pv = None THEN None
    ELSE IF ~Value(answer.pv).legal THEN None
    ELSE [move |-> Value(answer.pv).san, score |-> _format_score(answer.score)]

\* get_engine building and starting a new instance on every call.
get_engine_always_new(global, started) == [running |-> started]

\* get_engine: the global instance, created and started on first use;
\* `started` is whether ChessEngine.start() found and launched Stockfish.
get_engine(global, started) ==
    IF global = None THEN [running |-> started] ELSE global

\* is_running answering yes for an engine that never started.
is_running_always(engine) == TRUE

is_running(engine) == engine.running

(***************************************************************************)
(* The game record and the rules engine (python-chess), as analyze_game    *)
(* uses them.  A game record is a sequence of tokens: a move that is legal *)
(* where it stands, with what the board reports about it (its SAN, the     *)
(* piece on its from-square, the piece on its to-square, is_capture,       *)
(* gives_check), a move text that the board rejects (IllegalSan), or text  *)
(* that is no move at all (Junk).  A record of a game from a set-up        *)
(* position opens with its FEN header, of which the side to move is kept.  *)
(***************************************************************************)
IllegalSan == [illegal |-> TRUE]

Junk == [junk |-> TRUE]

Fen(turn) == [fen_turn |-> turn]

IsFen(token) == "fen_turn" \in DOMAIN token

Piece(t) == [piece_type |-> t]

Quiet(san, t, check) ==
    [san |-> san, moving_piece |-> Piece(t), captured_piece |-> None,
     is_capture |-> FALSE, gives_check |-> check]

Capture(san, t, c, check) ==
    [san |-> san, moving_piece |-> Piece(t), captured_piece |-> Piece(c),
     is_capture |-> TRUE, gives_check |-> check]

\* An en passant capture: is_capture holds and the to-square is empty.
EnPassant(san) ==
    [san |-> san, moving_piece |-> Piece("pawn"), captured_piece |-> None,
     is_capture |-> TRUE, gives_check |-> FALSE]

\* chess.pgn.read_game: None at the end of the input; else a game whose
\* mainline holds the moves up to the first one the board rejects.  The
\* rejected move is recorded in game.errors, the rest of the line is
\* skipped, and text that matches no token is passed over.  game.board()
\* is the position of the FEN header, the standard one without it: turn is
\* its side to move.
RECURSIVE Mainline(_)
Mainline(tokens) ==
    IF tokens = <<>> THEN <<>>
    ELSE IF Head(tokens) = IllegalSan THEN <<>>
    ELSE IF Head(tokens) = Junk \/ IsFen(Head(tokens)) THEN Mainline(Tail(tokens))
    ELSE <<Head(tokens)>> \o Mainline(Tail(tokens))

FirstTurn(text) ==
    IF text # <<>> /\ IsFen(text[1]) THEN text[1].fen_turn ELSE WHITE

read_game(text) ==
    IF text = <<>> THEN None
    ELSE [mainline |-> Mainline(text),
          errors |-> \E i \in 1..Len(text) : text[i] = IllegalSan,
          turn |-> FirstTurn(text)]

\* The piece values of the sacrifice test, analysis.py lines 192-193.
piece_values(t) ==
    CASE t = "pawn" -> 1
      [] t = "knight" -> 3
      [] t = "bishop" -> 3
      [] t = "rook" -> 5
      [] t = "queen" -> 9
      [] t = "king" -> 0

(***************************************************************************)
(* analysis.py: get_classification_comment, generate_game_summary          *)
(***************************************************************************)
\* A text is the sequence of its pieces.  `if best_move:` holds for a
\* string that is not empty.
\* The one number a comment shows is pawns: f"{eval_change/100:.1f}" of a
\* great move, f"{abs(eval_change)/100:.1f}" of a mistake or a blunder.
get_classification_comment(classification, eval_change, best_move, is_sacrifice) ==
    LET named == best_move # None /\ Value(best_move) # ""
        Comment(pawns) ==
            CASE classification = "brilliant" ->
                    IF is_sacrifice THEN <<"Brilliant sacrifice!">>
                    ELSE <<"Brilliant! The only winning move.">>
              [] classification = "great" ->
                    <<"Great move! Gains ">> \o pawns \o <<" pawns.">>
              [] classification = "best" -> <<"Best move.">>
              [] classification = "good" -> <<"Good move.">>
              [] classification = "book" -> <<"Book move.">>
              [] classification = "inaccuracy" ->
                    IF named
                    THEN <<"Inaccuracy. ", Value(best_move), " was better.">>
                    ELSE <<"Slight inaccuracy.">>
              [] classification = "mistake" ->
                    IF named
                    THEN <<"Mistake! ", Value(best_move), " was much better (">>
                             \o pawns \o <<" pawns lost).">>
                    ELSE <<"Mistake! (">> \o pawns \o <<" pawns lost)">>
              [] classification = "blunder" ->
                    IF named
                    THEN <<"Blunder! ", Value(best_move), " was winning. (">>
                             \o pawns \o <<" pawns lost)">>
                    ELSE <<"Blunder! (">> \o pawns \o <<" pawns lost)">>
              [] OTHER -> <<>>
    IN  Comment(Format1f(FDivInt(IF classification = "great" THEN eval_change
                                 ELSE FAbs(eval_change), 100)))

FirstN(seq, n) == SubSeq(seq, 1, IF Len(seq) < n THEN Len(seq) ELSE n)

\* generate_game_summary: the six counts and the lines of the first five
\* moves classified blunder or mistake.
generate_game_summary(moves, wb, wm, wi, bb, bm, bi) ==
    LET critical == SelectSeq(moves,
                        LAMBDA m : m.classification \in {"blunder", "mistake"})
        first == FirstN(critical, 5)
    IN  [white |-> <<wb, wm, wi>>,
         black |-> <<bb, bm, bi>>,
         critical |-> [i \in 1..Len(first) |->
                          [move_number |-> first[i].move_number,
                           move_san |-> first[i].move_san,
                           color |-> first[i].color,
                           comment |-> first[i].comment]]]

(***************************************************************************)
(* analysis.py: parse_eval                                                 *)
(***************************************************************************)
\* Lines 316-325: 1000 or -1000 for a mate score (an int, carried as the
\* float every operation on it takes it for), float(text) for any other
\* text, 0.0 when int() or float() raises ValueError.
parse_eval(score_str) ==
    IF score_str # <<>> /\ score_str[1] = "M"
    THEN IF IsIntLiteral(Tail(score_str))
         THEN (IF IntSign(Tail(score_str)) > 0 THEN Float(1000) ELSE Float(-1000))
         ELSE Float(0)
    ELSE IF IsFloatLiteral(score_str) THEN FloatValue(score_str)
    ELSE Float(0)

(***************************************************************************)
(* Specification SpecClassify: one call of classify_move on arguments      *)
(* drawn from values on both sides of every threshold, in pawns (0.5, 1.0, *)
(* 2.0 ...) and in the magnitudes the source compares with (50, 100, 200), *)
(* and from two differences of evaluations that come out one step of the   *)
(* last binary digit below -10 and -50.                                    *)
(***************************************************************************)
EvalChanges ==
    {Dec(h) : h \in
        {-20001, -20000, -10001, -10000, -5001, -5000, -1001, -1000,
         -201, -200, -101, -100, -51, -50, -11, -10, 0,
         49, 50, 99, 100, 4999, 5000, 9999, 10000}}
        \cup {FSub(Dec(-1610), Dec(-610)), FSub(Dec(-6440), Dec(-1440))}

EvalsBefore == {Dec(h) : h \in {-10001, -10000, -101, -100, 0}}

EvalsAfter == {Dec(h) : h \in {-1, 0, 1}}

ClassifyArgs ==
    [eval_change: EvalChanges, had_better_move: BOOLEAN, is_sacrifice: BOOLEAN,
     eval_before: EvalsBefore, eval_after: EvalsAfter, is_only_good_move: BOOLEAN]

InitClassify ==
    /\ pc = "classify"
    /\ cm_args \in ClassifyArgs
    /\ cm_result = None
    /\ GameIdle
    /\ TacticsIdle
    /\ ConcIdle

Classify ==
    /\ pc = "classify"
    /\ cm_result' = classify_move(cm_args.eval_change, cm_args.had_better_move,
                                  cm_args.is_sacrifice, cm_args.eval_before,
                                  cm_args.eval_after, cm_args.is_only_good_move)
    /\ pc' = "classified"
    /\ UNCHANGED <<cm_args, gameVars, tacticsVars, concVars>>

NextClassify == Classify

SpecClassify == InitClassify /\ [][NextClassify]_vars

(***************************************************************************)
(* Claims about classify_move (SpecClassify)                               *)
(***************************************************************************)
Classified == pc = "classified"

\* The decision order of the specification, section 4.2, first match wins,
\* with its thresholds in pawns (0.5 is 50 hundredths).
DecisionOrder(a) ==
    IF a.is_sacrifice /\ FGe(a.eval_change, Dec(50)) THEN "brilliant"
    ELSE IF a.is_only_good_move /\ FLt(a.eval_before, Dec(-100))
                /\ FGt(a.eval_after, Dec(0))
        THEN "brilliant"
    ELSE IF FGe(a.eval_change, Dec(100)) /\ ~a.had_better_move THEN "great"
    ELSE IF FGe(a.eval_change, Dec(-10))
        THEN (IF ~a.had_better_move THEN "best" ELSE "good")
    ELSE IF FGe(a.eval_change, Dec(-50)) THEN "good"
    ELSE IF FGe(a.eval_change, Dec(-100)) THEN "inaccuracy"
    ELSE IF FGe(a.eval_change, Dec(-200)) THEN "mistake"
    ELSE "blunder"

\* C1: with is_sacrifice and is_only_good_move false, classify_move returns
\* good for a change of -0.50 pawns, inaccuracy for -0.51 and -1.00, mistake
\* for -1.01 and -2.00 and blunder for -2.01, whatever had_better_move is.
C1_Boundaries ==
    (Classified /\ ~cm_args.is_sacrifice /\ ~cm_args.is_only_good_move) =>
        /\ cm_args.eval_change = Dec(-50) => cm_result = "good"
        /\ cm_args.eval_change = Dec(-51) => cm_result = "inaccuracy"
        /\ cm_args.eval_change = Dec(-100) => cm_result = "inaccuracy"
        /\ cm_args.eval_change = Dec(-101) => cm_result = "mistake"
        /\ cm_args.eval_change = Dec(-200) => cm_result = "mistake"
        /\ cm_args.eval_change = Dec(-201) => cm_result = "blunder"

\* C3, as stated: brilliant by the sacrifice rule needs is_sacrifice and a
\* change of at least +0.5 pawns, and every call with is_sacrifice false and
\* a change of at least +0.5 pawns returns great or best.
C3_NonSacrificeGreatOrBest ==
    Classified =>
        /\ (cm_result = "brilliant" /\ cm_args.is_sacrifice)
               => FGe(cm_args.eval_change, Dec(50))
        /\ (~cm_args.is_sacrifice /\ FGe(cm_args.eval_change, Dec(50)))
               => cm_result \in {"great", "best"}

\* C3, amended: with is_only_good_move false, brilliant is returned only for
\* a sacrifice whose change is at least +0.5 pawns; a call with is_sacrifice
\* false, is_only_good_move false and a change of at least +0.5 pawns
\* returns great or best when had_better_move is false and good when it is
\* true, never brilliant.
C3_BrilliantNeedsSacrifice ==
    (Classified /\ ~cm_args.is_only_good_move) =>
        /\ cm_result = "brilliant"
               => (cm_args.is_sacrifice /\ FGe(cm_args.eval_change, Dec(50)))
        /\ (~cm_args.is_sacrifice /\ FGe(cm_args.eval_change, Dec(50)))
               => /\ cm_result # "brilliant"
                  /\ ~cm_args.had_better_move => cm_result \in {"great", "best"}
                  /\ cm_args.had_better_move => cm_result = "good"

\* A move that is no sacrifice gains half a pawn where the evaluator
\* preferred another move, and is classified good.
C3_Witness ==
    /\ Classified
    /\ ~cm_args.is_only_good_move
    /\ ~cm_args.is_sacrifice
    /\ cm_args.eval_change = Dec(50)
    /\ cm_args.had_better_move
    /\ cm_result = "good"

\* C4: classify_move returns the label of the first matching rule of the
\* eight-step decision order with thresholds in pawns, and never book.
C4_FollowsDecisionOrder ==
    Classified => (cm_result = DecisionOrder(cm_args) /\ cm_result # "book")

(***************************************************************************)
(* analysis.py: analyze_game                                               *)
(***************************************************************************)
MaxMoves == 2

\* A line of captures: queen takes pawn, knight takes queen, pawn takes
\* knight, an en passant capture, king takes pawn.
CaptureLine ==
    <<Capture("Qxd5", "queen", "pawn", FALSE), Capture("Nxd5", "knight", "queen", TRUE),
      Capture("exd5", "pawn", "knight", FALSE), EnPassant("cxd6"),
      Capture("Kxd6", "king", "pawn", FALSE)>>

\* A line that opens with a capture of a piece of equal value: bishop takes
\* knight, pawn takes bishop, queen takes queen, king takes queen.
ExchangeLine ==
    <<Capture("Bxc6", "bishop", "knight", FALSE), Capture("dxc6", "pawn", "bishop", FALSE),
      Capture("Qxd8+", "queen", "queen", TRUE), Capture("Kxd8", "king", "queen", FALSE)>>

\* A line that opens with an en passant capture: pawn takes pawn in
\* passing, king takes pawn, rook takes pawn, rook takes rook.
EnPassantLine ==
    <<EnPassant("exd6"), Capture("Kxd6", "king", "pawn", FALSE),
      Capture("Rxa7", "rook", "pawn", FALSE), Capture("Rxa7", "rook", "rook", FALSE)>>

\* The game records analysed: the line of captures from a set-up position
\* with White to move, cut at every length up to MaxMoves, the empty text,
\* the first MaxMoves moves of the exchange line from a position with Black
\* to move, the capture in passing alone, text without a move, and records
\* in which the board rejects the first move or the one after the first.
GameRecords ==
    {<<Fen(WHITE)>> \o SubSeq(CaptureLine, 1, n) : n \in 0..MaxMoves}
        \cup {<<>>, <<Fen(BLACK)>> \o SubSeq(ExchangeLine, 1, 2),
              <<Fen(WHITE)>> \o SubSeq(EnPassantLine, 1, 1)}
        \cup {<<Junk>>, <<IllegalSan>>,
              <<Quiet("e4", "pawn", FALSE), IllegalSan, Quiet("Nf6", "knight", FALSE)>>,
              <<Junk, Quiet("e4", "pawn", FALSE)>>}

\* What the engine tells about a position with `turn` to move: scores are
\* relative to the side to move, as UCI reports them.
Cp(n, turn) == [relative |-> [kind |-> "cp", v |-> n], turn |-> turn]

Mate(n, turn) == [relative |-> [kind |-> "mate", v |-> n], turn |-> turn]

\* The scores of the answers: 2.98 pawns for the side to move, that side
\* mating in one, that side mated in one.
EngineScores(turn) ==
    {Cp(298, turn), Mate(1, turn), Mate(-1, turn)}

\* What engine.analyse tells about a position in which the side to move is
\* checkmated: a mate score of distance 0 and, as there is no legal move,
\* no principal variation.
MatedAnswer(turn) == [pv |-> None, score |-> Mate(0, turn)]

\* The answers of engine.analyse when the played move would be `san`.
EngineAnswers(turn, san) ==
    {EngineError, MatedAnswer(turn)}
        \cup [pv : {None, Some(PvMove(san)), Some(PvMove("Nf3")), Some(IllegalMove)},
              score : EngineScores(turn)]

\* Score texts as an evaluator standing in for ChessEngine may return
\* them: texts that int() and float() reject, and the texts nan and inf,
\* which float() reads as values that are no numbers.
ScoreTexts ==
    {<<"M">>, <<"M", "x">>, <<"a", "b", "c">>, <<>>, <<"1", ".", "2", ".", "3">>,
     <<"n", "a", "n">>, <<"i", "n", "f">>}

\* parse_eval reads the text without an exception.
WellFormed(score_str) ==
    IF score_str # <<>> /\ score_str[1] = "M"
    THEN IsIntLiteral(Tail(score_str))
    ELSE IsFloatLiteral(score_str)

\* The text is a number: float() reads it as a finite value.
IsNumber(score_str) ==
    IsFloatLiteral(score_str) /\ FloatValue(score_str).cls = "num"

\* The text is a mate marker followed by an integer.
IsMateMarker(score_str) ==
    score_str # <<>> /\ score_str[1] = "M" /\ IsIntLiteral(Tail(score_str))

\* Every result engine.get_best_move(board) can hand to analyze_game.
QueryResults(engine, turn, san) ==
    {get_best_move(engine, a) : a \in EngineAnswers(turn, san)}
        \cup [move : {san}, score : ScoreTexts]

\* board.turn after the moves pushed on the board of game g.
Turn(g, b) ==
    IF Len(b) % 2 = 0 THEN g.turn
    ELSE IF g.turn = WHITE THEN BLACK ELSE WHITE

\* What a query about the position b can return: the answer of the
\* deterministic evaluator ev for that position when there is one, else
\* any result.
Answers(ev, engine, g, b, san) ==
    IF ev = None THEN QueryResults(engine, Turn(g, b), san)
    ELSE {get_best_move(engine, ev[Len(b)])}

\* The record of one query in the log: the number of moves on the board it
\* was asked about, and how it was answered.
QueryRecord(ply, result) ==
    [ply |-> ply,
     outcome |-> IF result = None THEN "none"
                 ELSE IF ~WellFormed(result.score) THEN "malformed"
                 ELSE IF IsMateMarker(result.score) \/ IsNumber(result.score)
                 THEN "score" ELSE "not_a_number"]

InitGame ==
    /\ pc = "analyze_game"
    /\ ClassifyIdle
    /\ TacticsIdle
    /\ _engine = None
    /\ pgn_text \in GameRecords
    /\ game = None
    /\ board = <<>>
    /\ moves_analysis = <<>>
    /\ white_blunders = 0 /\ white_mistakes = 0 /\ white_inaccuracies = 0
    /\ black_blunders = 0 /\ black_mistakes = 0 /\ black_inaccuracies = 0
    /\ critical_moments = <<>>
    /\ move_number = 1
    /\ prev_eval = Float(0)
    /\ it = None
    /\ queries = <<>>
    /\ ret = None
    /\ evaluator = None
    /\ results = <<>>
    /\ ConcIdle

\* Lines 149-152: get the shared engine; fail when it is not running.
AnalyzeStart ==
    /\ pc = "analyze_game"
    /\ \E started \in BOOLEAN :
          LET engine == get_engine(_engine, started)
          IN  /\ _engine' = engine
              /\ IF ~is_running(engine)
                 THEN pc' = "done" /\ ret' = None
                 ELSE pc' = "read_game" /\ ret' = ret
    /\ UNCHANGED <<cmVars, tacticsVars, concVars, evaluator, results, pgn_text, game, board, moves_analysis, counters,
                   critical_moments, move_number, prev_eval, it, queries>>

\* Lines 154-172: read the game; fail when there is none; set up the loop.
ReadGame ==
    /\ pc = "read_game"
    /\ game' = read_game(pgn_text)
    /\ IF game' = None
       THEN pc' = "done" /\ ret' = None
       ELSE pc' = "loop" /\ ret' = ret
    /\ board' = <<>>
    /\ moves_analysis' = <<>>
    /\ white_blunders' = 0 /\ white_mistakes' = 0 /\ white_inaccuracies' = 0
    /\ black_blunders' = 0 /\ black_mistakes' = 0 /\ black_inaccuracies' = 0
    /\ critical_moments' = <<>>
    /\ move_number' = 1
    /\ prev_eval' = Float(0)
    /\ UNCHANGED <<cmVars, tacticsVars, concVars, evaluator, results, _engine, pgn_text, it, queries>>

\* Lines 186-195 comparing the values with >= instead of >.
IsSacrificeOrEqual(move) ==
    /\ move.is_capture
    /\ move.moving_piece # None /\ move.captured_piece # None
    /\ piece_values(move.moving_piece.piece_type)
           >= piece_values(move.captured_piece.piece_type)

\* Lines 186-195: a capture, with a piece on the to-square, by a piece of
\* greater value.
IsSacrifice(move) ==
    /\ move.is_capture
    /\ move.moving_piece # None /\ move.captured_piece # None
    /\ piece_values(move.moving_piece.piece_type)
           > piece_values(move.captured_piece.piece_type)

\* An evaluation seen from the side of the mover: itself for White, negated
\* for Black (lines 205-206, 224-227).
FromSide(is_white, eval) == IF is_white THEN eval ELSE FNeg(eval)

\* Lines 174-206: the next move of the mainline, its properties on the board
\* before it is made, and the query for the best move of that position.
PreMove ==
    /\ pc = "loop"
    /\ Len(board) < Len(game.mainline)
    /\ LET move == game.mainline[Len(board) + 1]
           is_white == Turn(game, board) = WHITE
           is_sacrifice == IsSacrifice(move)
       IN  \E result \in Answers(evaluator, _engine, game, board, move.san) :
              /\ queries' = Append(queries, QueryRecord(Len(board), result))
              /\ it' = [move |-> move,
                        is_white |-> is_white,
                        eval_before |-> prev_eval,
                        is_capture |-> move.is_capture,
                        is_check |-> move.gives_check,
                        is_sacrifice |-> is_sacrifice,
                        best_move_san |->
                            IF result # None THEN Some(result.move) ELSE None,
                        best_eval |->
                            IF result # None
                            THEN Some(FromSide(is_white, parse_eval(result.score)))
                            ELSE None]
    /\ pc' = "made_move"
    /\ UNCHANGED <<cmVars, tacticsVars, concVars, evaluator, results, _engine, pgn_text, game, board, moves_analysis, counters,
                   critical_moments, move_number, prev_eval, ret>>

\* Lines 251-265 counting the move whatever its classification.
BumpAlways(counter, hit) == counter + 1

Bump(counter, hit) == IF hit THEN counter + 1 ELSE counter

\* Lines 216-221: the evaluation after the move, the previous evaluation
\* when the query gave no result.
EvalAfter(result_after, prev) ==
    IF result_after # None THEN parse_eval(result_after.score) ELSE prev

\* Lines 223-227 taking the difference from White's side for both colours.
EvalChangeWhiteSide(is_white, eval_after, eval_before) ==
    FSub(eval_after, eval_before)

\* Lines 223-227: the change of the evaluation from the mover's side.
EvalChange(is_white, eval_after, eval_before) ==
    FSub(FromSide(is_white, eval_after), FromSide(is_white, eval_before))

\* Lines 288-289 with the update of prev_eval left out.
NextPrevEvalStale(eval_after, prev) == prev

\* Lines 288-289: the evaluation carried to the next iteration.
NextPrevEval(eval_after, prev) == eval_after

\* Lines 208-216 asking the second query before the move is made.
QueriedAfterUnpushed(b, move_san) == b

\* Lines 208-216: the position of the second query, the board after
\* board.push(move).
QueriedAfter(b, move_san) == Append(b, move_san)

\* Lines 267-269 with one entry for a move number at most.
NextCriticalMomentsOnce(moments, classification, number) ==
    IF classification \in {"blunder", "mistake", "brilliant", "great"}
           /\ \A i \in 1..Len(moments) : moments[i] # number
    THEN Append(moments, number)
    ELSE moments

\* Lines 267-269: the move number of a blunder, mistake, brilliant or great
\* move is appended.
NextCriticalMoments(moments, classification, number) ==
    IF classification \in {"blunder", "mistake", "brilliant", "great"}
    THEN Append(moments, number)
    ELSE moments

\* Lines 290-291 counting every half-move.
NextMoveNumberEveryHalfMove(is_white, number) == number + 1

\* Lines 290-291: the move number goes up after Black's half-move.
NextMoveNumber(is_white, number) ==
    IF ~is_white THEN number + 1 ELSE number

\* Lines 208-291: make the move, query the position after it, classify the
\* move, count it and append its MoveAnalysis.
PostMove ==
    /\ pc = "made_move"
    /\ LET move_san == it.move.san
           pushed == Append(board, move_san)
           asked == QueriedAfter(board, move_san)
           w == it.is_white
           played_is_best ==
               it.best_move_san # None /\ move_san = Value(it.best_move_san)
           had_better_move == it.best_eval # None /\ ~played_is_best
           best_move == IF had_better_move THEN it.best_move_san ELSE None
       IN  \E result_after \in Answers(evaluator, _engine, game, asked, "Nf3") :
           \E eval_after \in {EvalAfter(result_after, prev_eval)} :
           \E eval_change \in {EvalChange(w, eval_after, it.eval_before)} :
           \E is_only_good_move \in
                   {/\ played_is_best
                    /\ FLt(it.eval_before, Float(-100))
                    /\ FGt(eval_after, Float(-50))} :
           \E classification \in
                   {classify_move(eval_change, had_better_move, it.is_sacrifice,
                                  it.eval_before, eval_after, is_only_good_move)} :
              /\ board' = pushed
              /\ queries' = Append(queries, QueryRecord(Len(asked), result_after))
              /\ white_blunders' = Bump(white_blunders, w /\ classification = "blunder")
              /\ white_mistakes' = Bump(white_mistakes, w /\ classification = "mistake")
              /\ white_inaccuracies' =
                     Bump(white_inaccuracies, w /\ classification = "inaccuracy")
              /\ black_blunders' = Bump(black_blunders, ~w /\ classification = "blunder")
              /\ black_mistakes' = Bump(black_mistakes, ~w /\ classification = "mistake")
              /\ black_inaccuracies' =
                     Bump(black_inaccuracies, ~w /\ classification = "inaccuracy")
              /\ critical_moments' =
                     NextCriticalMoments(critical_moments, classification, move_number)
              /\ moves_analysis' = Append(moves_analysis,
                     [move_number |-> move_number,
                      color |-> IF w THEN "white" ELSE "black",
                      move_san |-> move_san,
                      eval_before |-> it.eval_before,
                      eval_after |-> eval_after,
                      eval_change |-> eval_change,
                      best_move |-> best_move,
                      best_eval |-> it.best_eval,
                      classification |-> classification,
                      comment |-> get_classification_comment(classification,
                                      eval_change, best_move, it.is_sacrifice),
                      is_capture |-> it.is_capture,
                      is_check |-> it.is_check,
                      is_sacrifice |-> it.is_sacrifice,
                      fen_after |-> pushed])
              /\ it' = [move |-> it.move,
                        is_white |-> w,
                        eval_before |-> it.eval_before,
                        is_capture |-> it.is_capture,
                        is_check |-> it.is_check,
                        is_sacrifice |-> it.is_sacrifice,
                        best_move_san |-> it.best_move_san,
                        best_eval |-> it.best_eval,
                        eval_after |-> eval_after,
                        eval_change |-> eval_change,
                        had_better_move |-> had_better_move,
                        is_only_good_move |-> is_only_good_move,
                        classification |-> classification]
              /\ prev_eval' = NextPrevEval(eval_after, prev_eval)
              /\ move_number' = NextMoveNumber(w, move_number)
    /\ pc' = "loop"
    /\ UNCHANGED <<cmVars, tacticsVars, concVars, evaluator, results, _engine, pgn_text, game, ret>>

\* Lines 293-309: the mainline is exhausted; build the summary and return.
Finish ==
    /\ pc = "loop"
    /\ Len(board) = Len(game.mainline)
    /\ ret' = [moves |-> moves_analysis,
               white_blunders |-> white_blunders,
               white_mistakes |-> white_mistakes,
               white_inaccuracies |-> white_inaccuracies,
               black_blunders |-> black_blunders,
               black_mistakes |-> black_mistakes,
               black_inaccuracies |-> black_inaccuracies,
               critical_moments |-> critical_moments,
               summary |-> generate_game_summary(moves_analysis,
                               white_blunders, white_mistakes, white_inaccuracies,
                               black_blunders, black_mistakes, black_inaccuracies)]
    /\ pc' = "done"
    /\ UNCHANGED <<cmVars, tacticsVars, concVars, evaluator, results, _engine, pgn_text, game, board, moves_analysis, counters,
                   critical_moments, move_number, prev_eval, it, queries>>

Next == AnalyzeStart \/ ReadGame \/ PreMove \/ PostMove \/ Finish

Spec == InitGame /\ [][Next]_vars

(***************************************************************************)
(* Claims about analyze_game (Spec)                                        *)
(***************************************************************************)
Returned == pc = "done"

\* The queries of the i-th analysed move: before it and after it.
PreQuery(i) == queries[2 * i - 1]

PostQuery(i) == queries[2 * i]

\* An iteration of the loop has just completed; `it` holds its locals.
IterationDone == pc = "loop" /\ moves_analysis # <<>>

\* C2: an analysed move with is_only_good_move false whose change, in pawns
\* and from the mover's side, is below -2.00 is classified blunder, one in
\* [-2.00, -1.00) mistake, one in [-1.00, -0.50) inaccuracy, and the mover's
\* counter of that error is incremented.
C2_LossThresholdsInPawns ==
    (IterationDone /\ ~it.is_only_good_move) =>
        /\ FLt(it.eval_change, Dec(-200)) =>
              /\ it.classification = "blunder"
              /\ (IF it.is_white THEN white_blunders ELSE black_blunders) >= 1
        /\ (FGe(it.eval_change, Dec(-200)) /\ FLt(it.eval_change, Dec(-100))) =>
              /\ it.classification = "mistake"
              /\ (IF it.is_white THEN white_mistakes ELSE black_mistakes) >= 1
        /\ (FGe(it.eval_change, Dec(-100)) /\ FLt(it.eval_change, Dec(-50))) =>
              /\ it.classification = "inaccuracy"
              /\ (IF it.is_white THEN white_inaccuracies ELSE black_inaccuracies) >= 1

\* C7: when the evaluator is not running, analyze_game has returned None, no
\* query was issued and no move was analysed.
C7_NotRunningFailsFast ==
    (_engine # None /\ ~_engine.running) =>
        /\ Returned /\ ret = None
        /\ queries = <<>>
        /\ moves_analysis = <<>>
        /\ game = None

C7_Witness ==
    /\ Returned
    /\ _engine # None /\ ~_engine.running
    /\ Len(Mainline(pgn_text)) >= 2

\* C8: once a query of the analysis has failed or returned no result,
\* analyze_game returns no GameAnalysis.
C8_FailedQueryAborts ==
    (Returned /\ \E i \in 1..Len(queries) : queries[i].outcome = "none")
        => ret = None

\* x is the value y: equal to it as == has it (0.0 and -0.0 are), or not
\* a number where y is not a number, which == does not report.
IsValue(x, y) == FEq(x, y) \/ (x.cls = "nan" /\ y.cls = "nan")

\* C12: the eval_change of every MoveAnalysis is the change seen from the
\* side that moved: eval_after - eval_before for a white move and the
\* negation of that difference for a black move.
C12_EvalChangeFromMover ==
    \A i \in 1..Len(moves_analysis) :
        LET m == moves_analysis[i]
            white_side == FSub(m.eval_after, m.eval_before)
            mover == Turn(game, SubSeq(board, 1, i - 1))
        IN  /\ m.color = (IF mover = WHITE THEN "white" ELSE "black")
            /\ m.color = "white" => IsValue(m.eval_change, white_side)
            /\ m.color = "black" => IsValue(m.eval_change, FNeg(white_side))

\* A returned analysis in which Black's move lost ground: the evaluation
\* rose for White and Black's eval_change is negative.
C12_Witness ==
    /\ Returned /\ ret # None
    /\ Len(ret.moves) >= 2
    /\ ret.moves[2].color = "black"
    /\ FGt(ret.moves[2].eval_after, ret.moves[2].eval_before)
    /\ FLt(ret.moves[2].eval_change, Float(0))

\* C16: the summary of a returned analysis lists the error counts of both
\* colours and, with their comments, the first five critical moments, which
\* are the moves whose numbers critical_moments records (those classified
\* blunder, mistake, brilliant or great), in game order.
C16_SummaryListsCriticalMoments ==
    (Returned /\ ret # None) =>
        LET recorded == SelectSeq(ret.moves, LAMBDA m :
                            m.classification \in {"blunder", "mistake", "brilliant", "great"})
            first == FirstN(recorded, 5)
        IN  /\ ret.summary.white =
                    <<ret.white_blunders, ret.white_mistakes, ret.white_inaccuracies>>
            /\ ret.summary.black =
                    <<ret.black_blunders, ret.black_mistakes, ret.black_inaccuracies>>
            /\ ret.critical_moments = [i \in 1..Len(recorded) |-> recorded[i].move_number]
            /\ Len(ret.summary.critical) = Len(first)
            /\ \A i \in 1..Len(first) :
                  /\ ret.summary.critical[i].move_number = first[i].move_number
                  /\ ret.summary.critical[i].move_san = first[i].move_san
                  /\ ret.summary.critical[i].comment = first[i].comment

\* C20: in the returned move list the first MoveAnalysis has eval_before 0.0
\* and every later one has the eval_after of the one before it as its
\* eval_before.
C20_EvalBeforeChain ==
    (Returned /\ ret # None) =>
        \A i \in 1..Len(ret.moves) :
            ret.moves[i].eval_before =
                (IF i = 1 THEN Float(0) ELSE ret.moves[i - 1].eval_after)

\* Two moves returned, the first leaving an evaluation other than 0.0.
C20_Witness ==
    /\ Returned /\ ret # None
    /\ Len(ret.moves) >= 2
    /\ ~FEq(ret.moves[1].eval_after, Float(0))
    /\ ret.moves[2].eval_before = ret.moves[1].eval_after

\* C21: the queries of one analysis are made one after the other in the
\* order of the game: the query before half-move N is about the position
\* before N, the query after it about the position with N made, both come
\* before any query of half-move N+1, and every analysed half-move has
\* exactly two queries.
C21_QueriesInOrder ==
    (pc \in {"loop", "made_move", "done"}) =>
        /\ \A i \in 1..Len(queries) : queries[i].ply = i \div 2
        /\ pc = "made_move" =>
              /\ Len(queries) = 2 * Len(moves_analysis) + 1
              /\ Len(board) = Len(moves_analysis)
        /\ pc # "made_move" =>
              /\ Len(queries) = 2 * Len(moves_analysis)
              /\ Len(board) = Len(moves_analysis)

\* An analysis of two half-moves has returned after four queries.
C21_Witness ==
    /\ Returned /\ ret # None
    /\ Len(ret.moves) = 2
    /\ Len(queries) = 4
    /\ PreQuery(2).ply = 1 /\ PostQuery(2).ply = 2

\* The number of moves of a colour with a classification.
CountMoves(moves, color, classification) ==
    Cardinality({i \in 1..Len(moves) :
        moves[i].color = color /\ moves[i].classification = classification})

\* C22: in a returned analysis each of the six counters is the number of
\* moves of its colour classified blunder, mistake or inaccuracy.
C22_CountersMatchMoves ==
    (Returned /\ ret # None) =>
        /\ ret.white_blunders = CountMoves(ret.moves, "white", "blunder")
        /\ ret.white_mistakes = CountMoves(ret.moves, "white", "mistake")
        /\ ret.white_inaccuracies = CountMoves(ret.moves, "white", "inaccuracy")
        /\ ret.black_blunders = CountMoves(ret.moves, "black", "blunder")
        /\ ret.black_mistakes = CountMoves(ret.moves, "black", "mistake")
        /\ ret.black_inaccuracies = CountMoves(ret.moves, "black", "inaccuracy")

\* A returned analysis with a white blunder counted and a black move that
\* is no error and counted nowhere.
C22_Witness ==
    /\ Returned /\ ret # None
    /\ Len(ret.moves) = 2
    /\ ret.moves[1].classification = "blunder"
    /\ ret.moves[2].classification \in {"great", "brilliant", "best", "good"}
    /\ ret.white_blunders = 1
    /\ ret.black_blunders = 0 /\ ret.black_mistakes = 0 /\ ret.black_inaccuracies = 0

\* The move numbers of the moves classified blunder, mistake, brilliant or
\* great, in game order.
RECURSIVE CriticalNumbers(_)
CriticalNumbers(moves) ==
    IF moves = <<>> THEN <<>>
    ELSE (IF Head(moves).classification \in {"blunder", "mistake", "brilliant", "great"}
          THEN <<Head(moves).move_number>> ELSE <<>>)
             \o CriticalNumbers(Tail(moves))

\* C23: critical_moments of a returned analysis is the sequence of the move
\* numbers of the half-moves classified blunder, mistake, brilliant or
\* great, in game order, one entry for each such half-move.
C23_CriticalMomentsExact ==
    (Returned /\ ret # None) =>
        ret.critical_moments = CriticalNumbers(ret.moves)

\* Both half-moves of the first move qualify: its number is listed twice.
C23_Witness ==
    /\ Returned /\ ret # None
    /\ Len(ret.moves) = 2
    /\ ret.critical_moments = <<1, 1>>

\* The type of the piece a move takes off the board: the piece on the
\* to-square, the pawn beside it for a capture in passing.
CapturedType(move) ==
    IF move.captured_piece # None THEN move.captured_piece.piece_type ELSE "pawn"

\* C25: is_sacrifice of an analysed half-move holds exactly when the move is
\* a capture by a piece of strictly greater value than the piece captured.
C25_SacrificeIffDearerCapturer ==
    \A i \in 1..Len(moves_analysis) :
        LET move == game.mainline[i]
        IN  /\ moves_analysis[i].is_capture = move.is_capture
            /\ moves_analysis[i].is_sacrifice =
                  (/\ move.is_capture
                   /\ piece_values(move.moving_piece.piece_type)
                          > piece_values(CapturedType(move)))
            /\ moves_analysis[i].is_sacrifice => moves_analysis[i].is_capture

\* A capture of a piece of equal value has been analysed and is no
\* sacrifice.
C25_Witness ==
    /\ moves_analysis # <<>>
    /\ game.mainline[1].is_capture
    /\ game.mainline[1].captured_piece # None
    /\ piece_values(game.mainline[1].moving_piece.piece_type)
           = piece_values(game.mainline[1].captured_piece.piece_type)
    /\ ~moves_analysis[1].is_sacrifice

\* C26: move_number starts at 1, the black half-move carries the number of
\* the white half-move it answers, and the number goes up by one after
\* every black half-move and never after a white one.
C26_MoveNumbers ==
    \A i \in 1..Len(moves_analysis) :
        /\ i = 1 => moves_analysis[i].move_number = 1
        /\ i > 1 =>
              moves_analysis[i].move_number =
                  moves_analysis[i - 1].move_number
                      + (IF moves_analysis[i - 1].color = "black" THEN 1 ELSE 0)
        /\ (i > 1 /\ moves_analysis[i].color = "black") =>
              /\ moves_analysis[i - 1].color = "white"
              /\ moves_analysis[i].move_number = moves_analysis[i - 1].move_number

\* Black's answer to the first move has been analysed under the number 1
\* and the counter stands at 2 for the next move.
C26_Witness ==
    /\ Len(moves_analysis) = 2
    /\ moves_analysis[2].color = "black"
    /\ moves_analysis[2].move_number = 1
    /\ move_number = 2


\* C28: no analysed half-move, White's or Black's, is classified brilliant
\* with an eval_change, taken from the mover's side, that is negative.
C28_BrilliantNeverLosesGround ==
    \A i \in 1..Len(moves_analysis) :
        moves_analysis[i].classification = "brilliant" =>
            FGe(moves_analysis[i].eval_change, Float(0))


\* C9: when the game record cannot be parsed or one of its moves cannot be
\* replayed, analyze_game returns None and has issued no evaluator query.
RecordInvalid(text) ==
    \/ \E i \in 1..Len(text) : text[i] = IllegalSan
    \/ text # <<>> /\ \A i \in 1..Len(text) : text[i] = Junk

C9_InvalidRecordFails ==
    (Returned /\ RecordInvalid(pgn_text)) => (ret = None /\ queries = <<>>)

\* The score text of a query was neither a number nor a mate marker
\* followed by an integer.
Unreadable(query) == query.outcome \in {"malformed", "not_a_number"}

\* C10: a score text that is neither a number nor M followed by an integer
\* is evaluated as 0.0, and the analysis goes on: the move it belongs to is
\* analysed with that value and a GameAnalysis with every move is returned.
C10_MalformedScoreNeutral ==
    /\ \A i \in 1..Len(moves_analysis) :
          /\ Unreadable(PreQuery(i)) =>
                /\ moves_analysis[i].best_eval # None
                /\ FEq(Value(moves_analysis[i].best_eval), Float(0))
          /\ Unreadable(PostQuery(i)) =>
                moves_analysis[i].eval_after = Float(0)
    /\ (Returned /\ \E i \in 1..Len(queries) : Unreadable(queries[i])) =>
          /\ ret # None
          /\ Len(ret.moves) = Len(game.mainline)

(***************************************************************************)
(* The board of python-chess as tactics.py reads it: a piece or None on    *)
(* each square 0..63 (a1 = 0, h1 = 7, a8 = 56), and the attack queries.    *)
(***************************************************************************)
SQUARES == [i \in 1..64 |-> i - 1]

Rank(sq) == sq \div 8

File(sq) == sq % 8

Man(t, color) == [piece_type |-> t, color |-> color]

FILE_NAMES == <<"a", "b", "c", "d", "e", "f", "g", "h">>

RANK_NAMES == <<"1", "2", "3", "4", "5", "6", "7", "8">>

\* chess.square_name, as the two pieces of its text.
square_name(sq) == <<FILE_NAMES[File(sq) + 1], RANK_NAMES[Rank(sq) + 1]>>

\* chess.piece_name(t).capitalize()
Capitalized(t) ==
    CASE t = "pawn" -> "Pawn"
      [] t = "knight" -> "Knight"
      [] t = "bishop" -> "Bishop"
      [] t = "rook" -> "Rook"
      [] t = "queen" -> "Queen"
      [] t = "king" -> "King"

\* The squares of a set in ascending order, as a SquareSet iterates.
RECURSIVE Ascending(_)
Ascending(S) ==
    IF S = {} THEN <<>>
    ELSE LET lo == CHOOSE x \in S : \A y \in S : x <= y
         IN  <<lo>> \o Ascending(S \ {lo})

\* Every square from `from` up to `to` along the step (dr, df) is reached
\* and every square strictly between them is empty.
RECURSIVE ClearPath(_, _, _, _, _)
ClearPath(b, from, to, dr, df) ==
    LET r == Rank(from) + dr
        f == File(from) + df
        next == r * 8 + f
    IN  IF r < 0 \/ r > 7 \/ f < 0 \/ f > 7 THEN FALSE
        ELSE IF next = to THEN TRUE
        ELSE IF b[next] # None THEN FALSE
        ELSE ClearPath(b, next, to, dr, df)

Sign(x) == IF x > 0 THEN 1 ELSE IF x < 0 THEN -1 ELSE 0

\* The piece on `from` attacks the square `to` (chess.Board.attacks_mask):
\* pawns diagonally forward, knights and kings by their jumps, sliders along
\* their lines up to and including the first occupied square.
Attacks(b, from, to) ==
    LET p == b[from]
        dr == Rank(to) - Rank(from)
        df == File(to) - File(from)
        straight == (dr = 0) # (df = 0)
        diagonal == dr # 0 /\ Abs(dr) = Abs(df)
        slide == ClearPath(b, from, to, Sign(dr), Sign(df))
    IN  /\ p # None
        /\ from # to
        /\ CASE p.piece_type = "pawn" ->
                    Abs(df) = 1 /\ dr = (IF p.color = WHITE THEN 1 ELSE -1)
             [] p.piece_type = "knight" ->
                    {Abs(dr), Abs(df)} = {1, 2}
             [] p.piece_type = "king" ->
                    Abs(dr) <= 1 /\ Abs(df) <= 1
             [] p.piece_type = "bishop" -> diagonal /\ slide
             [] p.piece_type = "rook" -> straight /\ slide
             [] p.piece_type = "queen" -> (straight \/ diagonal) /\ slide

\* board.attackers(color, square): the squares of the pieces of that colour
\* attacking the square.
attackers(b, color, square) ==
    {sq \in 0..63 : b[sq] # None /\ b[sq].color = color /\ Attacks(b, sq, square)}

\* board.attacks(square): the squares the piece on that square attacks.
attacks(b, square) == {sq \in 0..63 : Attacks(b, square, sq)}

\* board.king(color): the square of that colour's king, None without one.
king(b, color) ==
    LET ks == {sq \in 0..63 : b[sq] = Man("king", color)}
    IN  IF ks = {} THEN None ELSE Some(CHOOSE sq \in ks : \A o \in ks : o <= sq)

(***************************************************************************)
(* tactics.py: pins                                                        *)
(***************************************************************************)
is_on_same_line(sq1, sq2) ==
    LET r1 == sq1 \div 8
        f1 == sq1 % 8
        r2 == sq2 \div 8
        f2 == sq2 % 8
    IN  r1 = r2 \/ f1 = f2 \/ Abs(r1 - r2) = Abs(f1 - f2)

get_direction(from_sq, to_sq) ==
    LET r1 == from_sq \div 8
        f1 == from_sq % 8
        r2 == to_sq \div 8
        f2 == to_sq % 8
        dr == IF r2 = r1 THEN 0 ELSE IF r2 > r1 THEN 1 ELSE -1
        df == IF f2 = f1 THEN 0 ELSE IF f2 > f1 THEN 1 ELSE -1
    IN  dr * 8 + df

can_attack_along_line(piece_type, direction) ==
    LET is_diagonal == direction \in {-9, -7, 7, 9}
        is_straight == direction \in {-8, -1, 1, 8}
    IN  IF piece_type = "queen" THEN TRUE
        ELSE IF piece_type = "rook" THEN is_straight
        ELSE IF piece_type = "bishop" THEN is_diagonal
        ELSE FALSE

\* The loop of get_pinner passing over enemy pieces that cannot attack along
\* the line instead of stopping at them.
RECURSIVE look_beyond_past_blockers(_, _, _, _)
look_beyond_past_blockers(b, from, direction, attacker_color) ==
    LET current == from + direction
    IN  IF current < 0 \/ current > 63 THEN None
        ELSE IF Abs((current % 8) - ((current - direction) % 8)) > 1 THEN None
        ELSE IF b[current] = None
            THEN look_beyond_past_blockers(b, current, direction, attacker_color)
        ELSE IF b[current].color # attacker_color THEN None
        ELSE IF can_attack_along_line(b[current].piece_type, direction)
            THEN Some(current)
        ELSE look_beyond_past_blockers(b, current, direction, attacker_color)

\* The loop of get_pinner, lines 86-108: the first piece beyond `from` in the
\* direction, if it is an enemy piece that attacks along the line.
RECURSIVE look_beyond(_, _, _, _)
look_beyond(b, from, direction, attacker_color) ==
    LET current == from + direction
    IN  IF current < 0 \/ current > 63 THEN None
        ELSE IF Abs((current % 8) - ((current - direction) % 8)) > 1 THEN None
        ELSE IF b[current] = None
            THEN look_beyond(b, current, direction, attacker_color)
        ELSE IF b[current].color # attacker_color THEN None
        ELSE IF can_attack_along_line(b[current].piece_type, direction)
            THEN Some(current)
        ELSE None

\* get_pinner taking for the pinner any enemy bishop, rook or queen that
\* attacks the piece, wherever it stands.
get_pinner_by_attack(b, pinned_square, king_square, attacker_color) ==
    LET sliders == {sq \in attackers(b, attacker_color, pinned_square) :
                       b[sq].piece_type \in {"bishop", "rook", "queen"}}
    IN  IF ~is_on_same_line(pinned_square, king_square) \/ sliders = {} THEN None
        ELSE Some(CHOOSE sq \in sliders : \A o \in sliders : sq <= o)

get_pinner(b, pinned_square, king_square, attacker_color) ==
    IF ~is_on_same_line(pinned_square, king_square) THEN None
    ELSE look_beyond(b, pinned_square,
                     get_direction(king_square, pinned_square), attacker_color)

PinMotif(b, square, king_square, pin_attacker) ==
    [type |-> "pin",
     attacker_square |-> Some(pin_attacker),
     target_squares |-> <<square, king_square>>,
     description |->
         <<Capitalized(b[square].piece_type), " on ">> \o square_name(square)
             \o <<" is pinned to the king by ", b[pin_attacker].piece_type>>,
     severity |-> IF b[square].piece_type \in {"queen", "rook"}
                  THEN "warning" ELSE "info"]

\* The pins against the king of one colour, squares in ascending order.
PinsOf(b, color) ==
    IF king(b, color) = None THEN <<>>
    ELSE LET king_square == Value(king(b, color))
             pinned == SelectSeq(SQUARES, LAMBDA sq :
                          /\ b[sq] # None /\ b[sq].color = color
                          /\ sq # king_square
                          /\ get_pinner(b, sq, king_square, ~color) # None)
         IN  [i \in 1..Len(pinned) |->
                 PinMotif(b, pinned[i], king_square,
                          Value(get_pinner(b, pinned[i], king_square, ~color)))]

find_pins(b) == PinsOf(b, WHITE) \o PinsOf(b, BLACK)

(***************************************************************************)
(* tactics.py: forks                                                       *)
(***************************************************************************)
\* The valuable targets of the piece on `square`, in ascending order.
\* The targets of find_forks with knights and bishops counted for every
\* attacker, not only for a pawn.
valuable_targets_minor_for_all(b, square) ==
    SelectSeq(Ascending(attacks(b, square)), LAMBDA target_sq :
        /\ b[target_sq] # None
        /\ b[target_sq].color # b[square].color
        /\ b[target_sq].piece_type \in {"queen", "rook", "king", "knight", "bishop"})

valuable_targets(b, square) ==
    SelectSeq(Ascending(attacks(b, square)), LAMBDA target_sq :
        /\ b[target_sq] # None
        /\ b[target_sq].color # b[square].color
        /\ \/ b[target_sq].piece_type \in {"queen", "rook", "king"}
           \/ /\ b[target_sq].piece_type \in {"knight", "bishop"}
              /\ b[square].piece_type = "pawn")

RECURSIVE JoinAnd(_)
JoinAnd(names) ==
    IF Len(names) = 0 THEN <<>>
    ELSE IF Len(names) = 1 THEN names[1]
    ELSE names[1] \o <<" and ">> \o JoinAnd(Tail(names))

ForkMotif(b, square) ==
    LET targets == valuable_targets(b, square)
        shown == FirstN(targets, 3)
        target_names == [i \in 1..Len(shown) |->
                            <<b[shown[i]].piece_type, " on ">> \o square_name(shown[i])]
    IN  [type |-> "fork",
         attacker_square |-> Some(square),
         target_squares |-> targets,
         description |->
             <<Capitalized(b[square].piece_type), " on ">> \o square_name(square)
                 \o <<" forks ">> \o JoinAnd(target_names),
         severity |-> IF \E i \in 1..Len(targets) : b[targets[i]].piece_type = "king"
                      THEN "critical" ELSE "warning"]

\* find_forks without the test for at least two targets.
ForksOfNoThreshold(b, color) ==
    LET forking == SelectSeq(SQUARES, LAMBDA sq : b[sq] # None /\ b[sq].color = color)
    IN  [i \in 1..Len(forking) |-> ForkMotif(b, forking[i])]

ForksOf(b, color) ==
    LET forking == SelectSeq(SQUARES, LAMBDA sq :
                      /\ b[sq] # None /\ b[sq].color = color
                      /\ Len(valuable_targets(b, sq)) >= 2)
    IN  [i \in 1..Len(forking) |-> ForkMotif(b, forking[i])]

find_forks(b) == ForksOf(b, WHITE) \o ForksOf(b, BLACK)

(***************************************************************************)
(* tactics.py: hanging pieces                                              *)
(***************************************************************************)
HangingMotif(b, square) ==
    [type |-> "hanging_piece",
     attacker_square |-> Some(Ascending(attackers(b, ~b[square].color, square))[1]),
     target_squares |-> <<square>>,
     description |->
         <<IF b[square].color = WHITE THEN "White" ELSE "Black", " ",
           b[square].piece_type, " on ">> \o square_name(square)
             \o <<" is undefended and attacked">>,
     severity |-> IF b[square].piece_type \in {"queen", "rook"}
                  THEN "critical" ELSE "warning"]

\* find_hanging_pieces without the test that skips pawns.
find_hanging_pieces_with_pawns(b) ==
    LET hanging == SelectSeq(SQUARES, LAMBDA sq :
                      /\ b[sq] # None
                      /\ attackers(b, ~b[sq].color, sq) # {}
                      /\ attackers(b, b[sq].color, sq) = {})
    IN  [i \in 1..Len(hanging) |-> HangingMotif(b, hanging[i])]

find_hanging_pieces(b) ==
    LET hanging == SelectSeq(SQUARES, LAMBDA sq :
                      /\ b[sq] # None
                      /\ b[sq].piece_type # "pawn"
                      /\ attackers(b, ~b[sq].color, sq) # {}
                      /\ attackers(b, b[sq].color, sq) = {})
    IN  [i \in 1..Len(hanging) |-> HangingMotif(b, hanging[i])]

(***************************************************************************)
(* tactics.py: skewers                                                     *)
(***************************************************************************)
\* The piece values of check_skewer_direction, lines 267-268.
\* The values of check_skewer_direction with the king at 0, as in the
\* table of analyze_game.
skewer_piece_values_king_zero(t) ==
    CASE t = "pawn" -> 1
      [] t = "knight" -> 3
      [] t = "bishop" -> 3
      [] t = "rook" -> 5
      [] t = "queen" -> 9
      [] t = "king" -> 0

skewer_piece_values(t) ==
    CASE t = "pawn" -> 1
      [] t = "knight" -> 3
      [] t = "bishop" -> 3
      [] t = "rook" -> 5
      [] t = "queen" -> 9
      [] t = "king" -> 100

\* The loop of check_skewer_direction from the square `current` on, with
\* first_sq the square of the first enemy piece met, None before it.
RECURSIVE skewer_scan(_, _, _, _, _)
skewer_scan(b, current, direction, attacker_color, first_sq) ==
    IF current < 0 \/ current > 63 THEN None
    ELSE IF Abs((current % 8) - ((current - direction) % 8)) > 1 THEN None
    ELSE IF b[current] = None
        THEN skewer_scan(b, current + direction, direction, attacker_color, first_sq)
    ELSE IF b[current].color = attacker_color THEN None
    ELSE IF first_sq = None
        THEN skewer_scan(b, current + direction, direction, attacker_color,
                         Some(current))
    ELSE IF skewer_piece_values(b[Value(first_sq)].piece_type)
                > skewer_piece_values(b[current].piece_type)
        THEN Some(<<Value(first_sq), current>>)
    ELSE None

\* check_skewer_direction: the squares of the front and the back piece, or
\* None.
check_skewer_direction(b, attacker_sq, direction, attacker_color) ==
    skewer_scan(b, attacker_sq + direction, direction, attacker_color, None)

\* The directions find_skewers tries for a piece type, in its order.
skewer_directions(t) ==
    (IF t \in {"queen", "rook"} THEN <<-8, 8, -1, 1>> ELSE <<>>)
        \o (IF t \in {"queen", "bishop"} THEN <<-9, -7, 7, 9>> ELSE <<>>)

SkewerMotif(b, square, pair) ==
    [type |-> "skewer",
     attacker_square |-> Some(square),
     target_squares |-> pair,
     description |->
         <<Capitalized(b[square].piece_type), " skewers ",
           b[pair[1]].piece_type, " to ", b[pair[2]].piece_type>>,
     severity |-> "warning"]

\* The skewers of the slider on `square`, one per direction that has one.
SkewersFrom(b, square) ==
    LET found == SelectSeq(skewer_directions(b[square].piece_type), LAMBDA d :
                     check_skewer_direction(b, square, d, b[square].color) # None)
    IN  [i \in 1..Len(found) |->
            SkewerMotif(b, square,
                Value(check_skewer_direction(b, square, found[i], b[square].color)))]

RECURSIVE Concat(_)
Concat(seqs) == IF seqs = <<>> THEN <<>> ELSE Head(seqs) \o Concat(Tail(seqs))

SkewersOf(b, color) ==
    LET sliders == SelectSeq(SQUARES, LAMBDA sq :
                      /\ b[sq] # None /\ b[sq].color = color
                      /\ b[sq].piece_type \in {"queen", "rook", "bishop"})
    IN  Concat([i \in 1..Len(sliders) |-> SkewersFrom(b, sliders[i])])

find_skewers(b) == SkewersOf(b, WHITE) \o SkewersOf(b, BLACK)

(***************************************************************************)
(* tactics.py: analyze_tactics                                             *)
(***************************************************************************)
analyze_tactics(b) ==
    find_pins(b) \o find_forks(b) \o find_hanging_pieces(b) \o find_skewers(b)

(***************************************************************************)
(* Specification SpecTactics: a position is set up piece by piece around a *)
(* black king and analyze_tactics is called on it.  The squares are a5,    *)
(* c7, h7, a8, b8, d8, e8: the rank a8-e8, the file a5-a8, the diagonal    *)
(* a5-d8, and h7, the square before a8 in the numbering.                   *)
(***************************************************************************)
MaxPieces == 3

\* Squares are numbered a1 = 0, b1 = 1, ... h8 = 63 (file + 8 * rank).
Square(file_index, rank_index) == rank_index * 8 + file_index

A5 == Square(0, 4)
C7 == Square(2, 6)
H7 == Square(7, 6)
A8 == Square(0, 7)
B8 == Square(1, 7)
D8 == Square(3, 7)
E8 == Square(4, 7)

PlaceSquares == {A5, C7, H7, A8, B8, D8, E8}

KingSquares == {B8, D8, E8}

\* What may be put on a square: no pawn on the eighth rank.
PlaceMen(sq) ==
    {Man("queen", BLACK), Man("knight", BLACK),
     Man("bishop", WHITE), Man("rook", WHITE), Man("knight", WHITE)}
        \cup (IF Rank(sq) < 7 THEN {Man("pawn", WHITE)} ELSE {})

EmptyBoard == [sq \in 0..63 |-> None]

Occupied(b) == {sq \in 0..63 : b[sq] # None}

InitTactics ==
    /\ pc = "setup"
    /\ ClassifyIdle
    /\ GameIdle
    /\ ConcIdle
    /\ \E k \in KingSquares :
          position = [EmptyBoard EXCEPT ![k] = Man("king", BLACK)]
    /\ motifs = <<>>

\* chess.Board.set_piece_at on an empty square.
SetPiece ==
    /\ pc = "setup"
    /\ Cardinality(Occupied(position)) < MaxPieces + 1
    /\ \E sq \in PlaceSquares :
          /\ position[sq] = None
          /\ \E man \in PlaceMen(sq) : position' = [position EXCEPT ![sq] = man]
    /\ UNCHANGED <<pc, motifs, cmVars, gameVars, concVars>>

AnalyzeTactics ==
    /\ pc = "setup"
    /\ motifs' = analyze_tactics(position)
    /\ pc' = "analysed"
    /\ UNCHANGED <<position, cmVars, gameVars, concVars>>

NextTactics == SetPiece \/ AnalyzeTactics

SpecTactics == InitTactics /\ [][NextTactics]_vars

(***************************************************************************)
(* Claims about the tactical motif detector (SpecTactics)                  *)
(***************************************************************************)
Analysed == pc = "analysed"

MotifsOfType(t) == SelectSeq(motifs, LAMBDA m : m.type = t)

\* How many motifs of a list satisfy a condition.
CountMotifs(ms, Cond(_)) == Len(SelectSeq(ms, Cond))

\* C5: for every square holding a non-pawn piece, exactly one hanging_piece
\* motif with target_squares = [that square] is reported when the piece has
\* an attacker of the other colour and no defender of its own, and none
\* otherwise; none is reported for a pawn or an empty square; the severity
\* is critical for a queen or rook and warning for any other piece.
C5_HangingPieces ==
    Analysed =>
        LET hanging == MotifsOfType("hanging_piece")
        IN  /\ \A sq \in 0..63 :
                  LET man == position[sq]
                      expected ==
                          /\ man # None
                          /\ man.piece_type # "pawn"
                          /\ attackers(position, ~man.color, sq) # {}
                          /\ attackers(position, man.color, sq) = {}
                  IN  CountMotifs(hanging, LAMBDA m : m.target_squares = <<sq>>)
                          = IF expected THEN 1 ELSE 0
            /\ \A i \in 1..Len(hanging) :
                  /\ Len(hanging[i].target_squares) = 1
                  /\ hanging[i].severity =
                        IF position[hanging[i].target_squares[1]].piece_type
                               \in {"queen", "rook"}
                        THEN "critical" ELSE "warning"

\* A hanging knight is reported while an attacked, undefended pawn and an
\* attacked but defended piece are not.
C5_Witness ==
    /\ Analysed
    /\ \E i \in 1..Len(motifs) :
          /\ motifs[i].type = "hanging_piece"
          /\ position[motifs[i].target_squares[1]].piece_type = "knight"
          /\ motifs[i].severity = "warning"
    /\ \E sq \in Occupied(position) :
          /\ attackers(position, ~position[sq].color, sq) # {}
          /\ \/ position[sq].piece_type = "pawn"
                    /\ attackers(position, position[sq].color, sq) = {}
             \/ position[sq].piece_type # "pawn"
                    /\ attackers(position, position[sq].color, sq) # {}

\* The geometry of a pin, in ranks and files: `to` lies on a rank, file or
\* diagonal through `from`, at a distance, in a direction.
Dist(from, to) ==
    LET dr == Abs(Rank(to) - Rank(from))
        df == Abs(File(to) - File(from))
    IN  IF dr > df THEN dr ELSE df

OnLine(from, to) ==
    /\ from # to
    /\ \/ Rank(from) = Rank(to)
       \/ File(from) = File(to)
       \/ Abs(Rank(to) - Rank(from)) = Abs(File(to) - File(from))

Heading(from, to) == <<Sign(Rank(to) - Rank(from)), Sign(File(to) - File(from))>>

Straight(from, to) == Rank(from) = Rank(to) \/ File(from) = File(to)

\* `far` stands beyond `near` on a line through `from`.
Beyond(from, near, far) ==
    /\ OnLine(from, near) /\ OnLine(from, far)
    /\ Heading(from, near) = Heading(from, far)
    /\ Dist(from, near) < Dist(from, far)

\* The squares strictly between two squares of one line.
BetweenSquares(a, c) == {sq \in 0..63 : Beyond(a, sq, c)}

\* The enemy piece on `pinner` is one that attacks along its line to `pinned`.
LinePiece(b, pinned, pinner) ==
    \/ b[pinner].piece_type = "queen"
    \/ b[pinner].piece_type = "rook" /\ Straight(pinned, pinner)
    \/ b[pinner].piece_type = "bishop" /\ ~Straight(pinned, pinner)

\* The king of colour c on k, an own piece on a line through it and an enemy
\* line piece beyond that piece on the same line.
PinCandidate(b, c, k, pinned, pinner) ==
    /\ b[k] = Man("king", c)
    /\ b[pinned] # None /\ b[pinned].color = c /\ pinned # k
    /\ b[pinner] # None /\ b[pinner].color # c
    /\ Beyond(k, pinned, pinner)
    /\ LinePiece(b, pinned, pinner)

PinReported(k, pinned, pinner) ==
    \E i \in 1..Len(motifs) :
        /\ motifs[i].type = "pin"
        /\ motifs[i].attacker_square = Some(pinner)
        /\ motifs[i].target_squares = <<pinned, k>>

Blocked(b, pinned, pinner) ==
    \E sq \in BetweenSquares(pinned, pinner) : b[sq] # None

\* C6: for an own piece on a line through its king and an enemy rook or
\* queen (rank, file) or bishop or queen (diagonal) beyond it on that line,
\* a pin motif with that attacker and target_squares = [pinned, king] is
\* reported when no piece stands between pinner and pinned piece, and none
\* is reported when a piece of either colour stands between them.
C6_PinsAndBlockers ==
    Analysed =>
        LET men == Occupied(position)
        IN  \A k \in men : \A pinned, pinner \in men \ {k} :
                PinCandidate(position, position[k].color, k, pinned, pinner) =>
                    (PinReported(k, pinned, pinner)
                        <=> ~Blocked(position, pinned, pinner))

\* A queen pinned by a rook next to it, and a second line piece behind that
\* rook, for which no pin is reported.
C6_Witness ==
    /\ Analysed
    /\ \E k, pinned, pinner, behind \in Occupied(position) :
          /\ PinCandidate(position, BLACK, k, pinned, pinner)
          /\ ~Blocked(position, pinned, pinner)
          /\ PinReported(k, pinned, pinner)
          /\ PinCandidate(position, BLACK, k, pinned, behind)
          /\ Blocked(position, pinned, behind)
          /\ ~PinReported(k, pinned, behind)

\* C13: for every piece, exactly one fork motif with that piece's square as
\* attacker_square is reported when the piece attacks at least two opposing
\* pieces that are queen, rook or king (for a pawn also knight or bishop),
\* and none otherwise; its target_squares are exactly those targets, each
\* once, and its severity is critical when a king is among them, else
\* warning.
ForkTargets(b, sq) ==
    {t \in Occupied(b) :
        /\ Attacks(b, sq, t)
        /\ b[t].color # b[sq].color
        /\ \/ b[t].piece_type \in {"queen", "rook", "king"}
           \/ b[sq].piece_type = "pawn" /\ b[t].piece_type \in {"knight", "bishop"}}

C13_Forks ==
    Analysed =>
        LET forks == MotifsOfType("fork")
        IN  /\ \A i \in 1..Len(forks) :
                  /\ forks[i].attacker_square # None
                  /\ Value(forks[i].attacker_square) \in Occupied(position)
            /\ \A sq \in Occupied(position) :
                  LET targets == ForkTargets(position, sq)
                      mine == SelectSeq(forks, LAMBDA m : m.attacker_square = Some(sq))
                  IN  /\ Len(mine) = (IF Cardinality(targets) >= 2 THEN 1 ELSE 0)
                      /\ \A i \in 1..Len(mine) :
                            /\ {mine[i].target_squares[j] :
                                   j \in 1..Len(mine[i].target_squares)} = targets
                            /\ Len(mine[i].target_squares) = Cardinality(targets)
                            /\ mine[i].severity =
                                  (IF \E t \in targets : position[t].piece_type = "king"
                                   THEN "critical" ELSE "warning")

\* A white knight forks the black king and queen.
C13_Witness ==
    /\ Analysed
    /\ \E i \in 1..Len(motifs) :
          /\ motifs[i].type = "fork"
          /\ position[Value(motifs[i].attacker_square)] = Man("knight", WHITE)
          /\ motifs[i].severity = "critical"
          /\ Len(motifs[i].target_squares) = 2

\* The values the specification gives the pieces for a skewer.
SkewerValue(t) ==
    CASE t = "pawn" -> 1
      [] t = "knight" -> 3
      [] t = "bishop" -> 3
      [] t = "rook" -> 5
      [] t = "queen" -> 9
      [] t = "king" -> 100

\* The first two pieces on a line of the slider on s, in a direction its
\* type moves in, are the opposing pieces on front and back, and the front
\* piece is worth more than the back piece.
SkewerCase(b, s, front, back) ==
    /\ b[s].piece_type \in {"bishop", "rook", "queen"}
    /\ Beyond(s, front, back)
    /\ \/ b[s].piece_type = "queen"
       \/ b[s].piece_type = "rook" /\ Straight(s, front)
       \/ b[s].piece_type = "bishop" /\ ~Straight(s, front)
    /\ \A sq \in BetweenSquares(s, back) \ {front} : b[sq] = None
    /\ b[front].color # b[s].color
    /\ b[back].color # b[s].color
    /\ SkewerValue(b[front].piece_type) > SkewerValue(b[back].piece_type)

SkewerReported(s, front, back) ==
    \E i \in 1..Len(motifs) :
        /\ motifs[i].type = "skewer"
        /\ motifs[i].attacker_square = Some(s)
        /\ motifs[i].target_squares = <<front, back>>

\* C14: a skewer motif with attacker S and target_squares = [front, back]
\* is reported exactly when S is a bishop, rook or queen, front and back are
\* the first two pieces on one of its lines, met without leaving the board,
\* both are opposing pieces, and the front piece is worth more than the back
\* piece (pawn 1, knight 3, bishop 3, rook 5, queen 9, king 100); every
\* skewer motif is of that shape.
C14_Skewers ==
    Analysed =>
        LET men == Occupied(position)
            skewers == MotifsOfType("skewer")
        IN  /\ \A i \in 1..Len(skewers) :
                  /\ skewers[i].attacker_square # None
                  /\ Value(skewers[i].attacker_square) \in men
                  /\ Len(skewers[i].target_squares) = 2
                  /\ \A j \in 1..2 : skewers[i].target_squares[j] \in men
                  /\ skewers[i].severity = "warning"
            /\ \A s \in men : \A front, back \in men \ {s} :
                  SkewerReported(s, front, back) <=> SkewerCase(position, s, front, back)

\* A white rook skewers the black king to the black queen.
C14_Witness ==
    /\ Analysed
    /\ \E s, front, back \in Occupied(position) :
          /\ position[s] = Man("rook", WHITE)
          /\ position[front] = Man("king", BLACK)
          /\ position[back] = Man("queen", BLACK)
          /\ SkewerReported(s, front, back)

\* C15: every motif analyze_tactics returns has a type among pin, fork,
\* skewer and hanging_piece, a severity among info, warning and critical,
\* and a target_squares list that is not empty and holds squares 0..63.
C15_MotifsWellFormed ==
    \A i \in 1..Len(motifs) :
        /\ motifs[i].type \in {"pin", "fork", "skewer", "hanging_piece"}
        /\ motifs[i].severity \in {"info", "warning", "critical"}
        /\ Len(motifs[i].target_squares) >= 1
        /\ \A j \in 1..Len(motifs[i].target_squares) :
              motifs[i].target_squares[j] \in 0..63

\* A position with the king in check by a rook, in which motifs of three
\* types are reported and none of them is a check.
C15_Witness ==
    /\ Analysed
    /\ \E sq \in attackers(position, WHITE, Value(king(position, BLACK))) :
          position[sq].piece_type = "rook"
    /\ Cardinality({motifs[i].type : i \in 1..Len(motifs)}) >= 3

\* The position of C17: black queen d8, black king e8, white bishop a5.
PinExamplePosition ==
    [EmptyBoard EXCEPT ![D8] = Man("queen", BLACK),
                       ![E8] = Man("king", BLACK),
                       ![A5] = Man("bishop", WHITE)]

\* C17: in that position exactly one pin motif is reported, with
\* target_squares = [d8, e8].
C17_ExamplePinReported ==
    (Analysed /\ position = PinExamplePosition) =>
        LET pins == MotifsOfType("pin")
        IN  Len(pins) = 1 /\ pins[1].target_squares = <<D8, E8>>

\* C17, amended: in that position no pin motif is reported, the king on e8
\* standing off the diagonal a5-d8; the one motif reported is the hanging
\* bishop on a5, attacked by the queen.
C17_ExampleNoPin ==
    (Analysed /\ position = PinExamplePosition) =>
        /\ MotifsOfType("pin") = <<>>
        /\ Len(motifs) = 1
        /\ motifs[1].type = "hanging_piece"
        /\ motifs[1].target_squares = <<A5>>

C17_Witness ==
    /\ Analysed
    /\ position = PinExamplePosition
    /\ ~OnLine(A5, E8)
    /\ Attacks(position, A5, D8)

(***************************************************************************)
(* Specification SpecScholar: analyze_game on 1.e4 e5 2.Qh5 Nf6 3.Qxf7+    *)
(* with a deterministic evaluator that reports 0.0 and the best move Qxf7+ *)
(* for the position before White's third move and +9.0 for the position    *)
(* after it; its answers for the earlier positions are free.               *)
(***************************************************************************)
ScholarLine ==
    <<Quiet("e4", "pawn", FALSE), Quiet("e5", "pawn", FALSE),
      Quiet("Qh5", "queen", FALSE), Quiet("Nf6", "knight", FALSE),
      Capture("Qxf7+", "queen", "pawn", TRUE)>>

\* The side to move after `ply` moves of the game of a record.
TurnAt(text, ply) == Turn([turn |-> FirstTurn(text)], SubSeq(Mainline(text), 1, ply))

\* Four answers of engine.analyse for the position after `ply` moves of a
\* line: an error, the move of the line as best move with a score of 2.98
\* for the side to move, another move with that side mated in one, the
\* move of the line with that side mating in one.
AnswerChoices(text, ply) ==
    LET line == Mainline(text)
        next == PvMove(IF ply < Len(line) THEN line[ply + 1].san ELSE "Nf3")
    IN  <<EngineError,
          [pv |-> Some(next), score |-> Cp(298, TurnAt(text, ply))],
          [pv |-> Some(PvMove("Nf3")), score |-> Mate(-1, TurnAt(text, ply))],
          [pv |-> Some(next), score |-> Mate(1, TurnAt(text, ply))]>>

ScholarEvaluators ==
    {[ply \in 0..Len(ScholarLine) |->
        IF ply = 4 THEN [pv |-> Some(PvMove("Qxf7+")), score |-> Cp(0, WHITE)]
        ELSE IF ply = 5 THEN [pv |-> Some(PvMove("Kxf7")), score |-> Cp(-900, BLACK)]
        ELSE AnswerChoices(ScholarLine, ply)[choice[ply]]] :
            choice \in [0..3 -> 1..4]}

\* analyze_game is called on one of the records with one of the evaluators.
InitCall(records, evaluators) ==
    /\ pc = "analyze_game"
    /\ ClassifyIdle
    /\ TacticsIdle
    /\ ConcIdle
    /\ _engine = None
    /\ pgn_text \in records
    /\ game = None
    /\ board = <<>>
    /\ moves_analysis = <<>>
    /\ white_blunders = 0 /\ white_mistakes = 0 /\ white_inaccuracies = 0
    /\ black_blunders = 0 /\ black_mistakes = 0 /\ black_inaccuracies = 0
    /\ critical_moments = <<>>
    /\ move_number = 1
    /\ prev_eval = Float(0)
    /\ it = None
    /\ queries = <<>>
    /\ ret = None
    /\ evaluator \in evaluators
    /\ results = <<>>

InitScholar == InitCall({ScholarLine}, ScholarEvaluators)

SpecScholar == InitScholar /\ [][Next]_vars

\* C18: in the analysis of that game White's third move is classified best
\* or great and is recorded as a capture and as a check.
C18_ScholarMove ==
    (Returned /\ ret # None) =>
        /\ Len(ret.moves) = 5
        /\ ret.moves[5].move_number = 3
        /\ ret.moves[5].color = "white"
        /\ ret.moves[5].move_san = "Qxf7+"
        /\ ret.moves[5].classification \in {"best", "great"}
        /\ ret.moves[5].is_capture
        /\ ret.moves[5].is_check

\* The analysis has returned with the evaluations 0.0 before and +9.0 after
\* the move, and the move classified best.
C18_Witness ==
    /\ Returned /\ ret # None
    /\ ret.moves[5].eval_before = Float(0)
    /\ ret.moves[5].eval_after = Float(9)
    /\ ret.moves[5].eval_change = Float(9)
    /\ ret.moves[5].classification = "best"

(***************************************************************************)
(* Specification SpecTwice: analyze_game called MaxCalls times in a row on *)
(* the same record, in one process (the module global _engine is kept      *)
(* between the calls), with a deterministic evaluator.                     *)
(***************************************************************************)
MaxCalls == 2

\* The deterministic evaluators for a record: one answer for each position
\* of its mainline.
RecordEvaluators(line) ==
    {[ply \in 0..Len(Mainline(line)) |-> AnswerChoices(line, ply)[choice[ply]]] :
        choice \in [0..Len(Mainline(line)) -> 1..4]}

InitTwice ==
    \E line \in GameRecords : InitCall({line}, RecordEvaluators(line))

\* The call has returned and analyze_game is called again with the same
\* argument: the result is kept for comparison; the module global _engine
\* is what the first call left; the locals are set anew by lines 160-172.
CallAgain ==
    /\ pc = "done"
    /\ Len(results) < MaxCalls - 1
    /\ results' = Append(results, ret)
    /\ pc' = "analyze_game"
    /\ ret' = None
    /\ it' = None
    /\ queries' = <<>>
    /\ UNCHANGED <<cmVars, tacticsVars, concVars, evaluator, _engine, pgn_text,
                   game, board, moves_analysis, counters, critical_moments,
                   move_number, prev_eval>>

NextTwice == Next \/ CallAgain

SpecTwice == InitTwice /\ [][NextTwice]_vars

\* C11: a later call of analyze_game on the same record with the same
\* deterministic evaluator returns a result equal to that of every earlier
\* call, in every field.
C11_SecondCallEqual ==
    (Returned /\ results # <<>>) =>
        \A i \in 1..Len(results) : results[i] = ret

\* The second call has returned an analysis of two moves, as the first did.
C11_Witness ==
    /\ Returned
    /\ Len(results) = 1
    /\ results[1] # None
    /\ ret # None
    /\ Len(results[1].moves) = 2
    /\ Len(ret.moves) = 2

(***************************************************************************)
(* Specification SpecConcurrent: two analyses run at the same time in one  *)
(* process, each on a thread of its own: analyze_game with analyze_game or *)
(* with check_blunder (the live check of one move).  `sessions` holds the  *)
(* ChessEngine objects created so far; here _engine and the callers' local *)
(* variable engine hold references into it.  The bytecode of get_engine is *)
(* not atomic, so its lines are steps of their own.                        *)
(***************************************************************************)
Callers == {1, 2}

Ref(i) == [ref |-> i]

\* ChessEngine.__init__: no evaluator process yet.
ChessEngine == [running |-> FALSE]

\* ChessEngine.stop, engine.py lines 76-83: the evaluator process is quit
\* and self.engine is None again; nothing changes when none was running.
stop(engine) == [engine EXCEPT !.running = FALSE]

\* A caller about to enter get_engine; `left` is the number of queries its
\* analysis will make: two for every move of the game, two for a live check;
\* `self` is the ChessEngine whose start() the caller is in.
Caller(kind, left) ==
    [kind |-> kind, pc |-> "get_engine", engine |-> None, self |-> None,
     left |-> left]

AnalyzeGameCallers == {Caller("analyze_game", 2 * n) : n \in 0..MaxMoves}

CheckBlunderCallers == {Caller("check_blunder", 2)}

InitConcurrent ==
    /\ pc = "startup"
    /\ ClassifyIdle
    /\ GameIdle
    /\ TacticsIdle
    /\ sessions = <<>>
    /\ lifespan_engine = None
    /\ threads \in [Callers -> AnalyzeGameCallers \cup CheckBlunderCallers]
    /\ \E t \in Callers : threads[t].kind = "analyze_game"

idleVars ==
    <<cmVars, tacticsVars, pgn_text, game, board, moves_analysis, counters,
      critical_moments, move_number, prev_eval, it, queries, ret, evaluator,
      results>>

\* main.py line 85: the server creates and starts the engine at startup,
\* before it serves a request, and keeps it in its local engine.
Lifespan ==
    /\ pc = "startup"
    /\ \E started \in BOOLEAN :
          sessions' = Append(sessions, [running |-> started])
    /\ _engine' = Ref(Len(sessions'))
    /\ lifespan_engine' = _engine'
    /\ pc' = "concurrent"
    /\ UNCHANGED <<idleVars, threads>>

\* The analyses are called without the server: no engine exists yet.
Import ==
    /\ pc = "startup"
    /\ pc' = "concurrent"
    /\ UNCHANGED <<idleVars, threads, sessions, _engine, lifespan_engine>>

\* main.py lines 103-106: the server shuts down, its requests served, and
\* stops the engine it got at startup.
LifespanShutdown ==
    /\ pc = "concurrent"
    /\ lifespan_engine # None
    /\ \A t \in Callers : threads[t].pc = "done"
    /\ sessions' = [sessions EXCEPT ![lifespan_engine.ref] = stop(@)]
    /\ UNCHANGED <<pc, idleVars, threads, _engine, lifespan_engine>>

Goto(t, label) == threads' = [threads EXCEPT ![t].pc = label]

\* engine.py line 384: if _engine is None.
GetEngineTest ==
    /\ pc = "concurrent"
    /\ \E t \in Callers :
          /\ threads[t].pc = "get_engine"
          /\ Goto(t, IF _engine = None THEN "create" ELSE "return")
    /\ UNCHANGED <<pc, idleVars, sessions, _engine, lifespan_engine>>

\* engine.py line 385: _engine = ChessEngine(skill_level=10).
GetEngineCreate ==
    /\ pc = "concurrent"
    /\ \E t \in Callers :
          /\ threads[t].pc = "create"
          /\ Goto(t, "start")
    /\ sessions' = Append(sessions, ChessEngine)
    /\ _engine' = Ref(Len(sessions'))
    /\ UNCHANGED <<pc, idleVars, lifespan_engine>>

\* engine.py line 386: _engine.start() reads the global and enters start()
\* of the object it holds now.
GetEngineStart ==
    /\ pc = "concurrent"
    /\ \E t \in Callers :
          /\ threads[t].pc = "start"
          /\ threads' = [threads EXCEPT ![t].pc = "popen_uci",
                                        ![t].self = _engine]
    /\ UNCHANGED <<pc, idleVars, sessions, _engine, lifespan_engine>>

\* ChessEngine.start, engine.py lines 58-74: after the wait for Stockfish
\* in popen_uci, self.engine is set; a start that fails leaves the object
\* as it was.
start ==
    /\ pc = "concurrent"
    /\ \E t \in Callers, started \in BOOLEAN :
          /\ threads[t].pc = "popen_uci"
          /\ sessions' = [sessions EXCEPT
                              ![threads[t].self.ref].running = @ \/ started]
          /\ threads' = [threads EXCEPT ![t].pc = "return", ![t].self = None]
    /\ UNCHANGED <<pc, idleVars, _engine, lifespan_engine>>

\* engine.py line 387 and analysis.py lines 149, 374: engine = get_engine().
GetEngineReturn ==
    /\ pc = "concurrent"
    /\ \E t \in Callers :
          /\ threads[t].pc = "return"
          /\ threads' = [threads EXCEPT ![t].pc = "is_running",
                                        ![t].engine = _engine]
    /\ UNCHANGED <<pc, idleVars, sessions, _engine, lifespan_engine>>

\* analysis.py lines 150-152, 375-376: return when the engine is not
\* running; analyze_game of a game without moves returns without a query.
CheckRunning ==
    /\ pc = "concurrent"
    /\ \E t \in Callers :
          /\ threads[t].pc = "is_running"
          /\ Goto(t, IF ~is_running(sessions[threads[t].engine.ref])
                          \/ threads[t].left = 0
                     THEN "done" ELSE "query")
    /\ UNCHANGED <<pc, idleVars, sessions, _engine, lifespan_engine>>

\* analysis.py lines 198, 216, 379, 390: engine.get_best_move(...) sends
\* the request to the evaluator session of the caller's handle.
BeginQuery ==
    /\ pc = "concurrent"
    /\ \E t \in Callers :
          /\ threads[t].pc = "query"
          /\ Goto(t, "in_flight")
    /\ UNCHANGED <<pc, idleVars, sessions, _engine, lifespan_engine>>

\* The request is answered.  check_blunder returns when a query has no
\* result (lines 380-381, 391-392); analyze_game goes on.
EndQuery ==
    /\ pc = "concurrent"
    /\ \E t \in Callers, answered \in BOOLEAN :
          /\ threads[t].pc = "in_flight"
          /\ threads' = [threads EXCEPT
                ![t].left = @ - 1,
                ![t].pc = IF threads[t].left = 1
                             \/ (threads[t].kind = "check_blunder" /\ ~answered)
                          THEN "done" ELSE "query"]
    /\ UNCHANGED <<pc, idleVars, sessions, _engine, lifespan_engine>>

NextConcurrent ==
    \/ Lifespan \/ Import \/ LifespanShutdown
    \/ GetEngineTest \/ GetEngineCreate \/ GetEngineStart \/ start
    \/ GetEngineReturn
    \/ CheckRunning \/ BeginQuery \/ EndQuery

SpecConcurrent == InitConcurrent /\ [][NextConcurrent]_vars

\* The callers whose request is in flight on the session i.
InFlight(i) ==
    {t \in Callers : threads[t].pc = "in_flight" /\ threads[t].engine = Ref(i)}

\* C19: no two requests of the two analyses are in flight on the same
\* evaluator session at the same time, and the two analyses never hold a
\* handle to the same session.
C19_OwnSessions ==
    pc = "concurrent" =>
        /\ \A i \in 1..Len(sessions) : Cardinality(InFlight(i)) <= 1
        /\ \A t, u \in Callers :
              (t # u /\ threads[t].engine # None /\ threads[u].engine # None)
                  => threads[t].engine # threads[u].engine

\* C24: a best_eval that is present has the sign of the evaluator's score
\* for the position before the move seen from White's side, for a black
\* move as for a white one.
C24_BestEvalWhitePerspective ==
    \A i \in 1..Len(moves_analysis) :
        LET m == moves_analysis[i]
            score == PovWhite(evaluator[i - 1].score)
        IN  m.best_eval # None =>
                /\ score.v > 0 => FGt(Value(m.best_eval), Float(0))
                /\ score.v < 0 => FLt(Value(m.best_eval), Float(0))

\* C27: every pin motif reported is a real pin: king, pinned piece and
\* attacker stand on one rank, file or diagonal in that order, and every
\* square strictly between king and attacker is empty but for the square
\* of the pinned piece.
C27_PinsAreRealPins ==
    Analysed =>
        \A i \in 1..Len(motifs) :
            motifs[i].type = "pin" =>
                LET attacker == Value(motifs[i].attacker_square)
                    pinned == motifs[i].target_squares[1]
                    k == motifs[i].target_squares[2]
                IN  /\ Beyond(k, pinned, attacker)
                    /\ \A sq \in BetweenSquares(k, attacker) \ {pinned} :
                          position[sq] = None

(***************************************************************************)
(* Specification SpecMate: analyze_game on games that end with a move that *)
(* gives checkmate, White's (one half-move) and Black's (two), with a      *)
(* deterministic evaluator that answers for the final position as the      *)
(* engine does for a checkmated side to move.                              *)
(***************************************************************************)
MateLines ==
    {<<Quiet("Qh7#", "queen", TRUE)>>,
     <<Quiet("g4", "pawn", FALSE), Quiet("Qh4#", "queen", TRUE)>>,
     <<Capture("Qxf7#", "queen", "pawn", TRUE)>>}

MateEvaluators(line) ==
    {[ply \in 0..Len(line) |->
        IF ply = Len(line) THEN MatedAnswer(TurnAt(line, ply))
        ELSE AnswerChoices(line, ply)[choice[ply]]] :
            choice \in [0..Len(line) -> 1..4]}

InitMate ==
    \E line \in MateLines : InitCall({line}, MateEvaluators(line))

SpecMate == InitMate /\ [][Next]_vars

\* C29: a half-move after which the evaluator reports a mate of distance 0
\* against the side to move, that is checkmate given by the mover, is not
\* classified inaccuracy, mistake or blunder, for White as for Black.
C29_MatingMoveNoError ==
    \A i \in 1..Len(moves_analysis) :
        evaluator[i] = MatedAnswer(TurnAt(pgn_text, i)) =>
            moves_analysis[i].classification \notin {"inaccuracy", "mistake", "blunder"}

\* White's mating move has been analysed: the query about the final
\* position gave no result, the evaluation stayed and the move is best.
C29_Witness ==
    /\ Returned /\ ret # None
    /\ Len(ret.moves) = 1
    /\ ret.moves[1].color = "white"
    /\ evaluator[1] = MatedAnswer(BLACK)
    /\ PostQuery(1).outcome = "none"
    /\ ret.moves[1].eval_after = ret.moves[1].eval_before
    /\ ret.moves[1].classification = "best"

(***************************************************************************)
(* Specification SpecLive: the live checks of one move, check_blunder      *)
(* (analysis.py) and analyze_player_move (main.py), each called once on    *)
(* the same move with the same answers of the engine for the position      *)
(* before and the position after the move.                                 *)
(***************************************************************************)
\* Scores of the engine for the live checks, for the side `turn` to move:
\* 0.0, 0.5, 1.5 and 3.0 pawns for White and White mating in one.
LiveScores(turn) ==
    {Cp(IF turn = WHITE THEN v ELSE -v, turn) : v \in {0, 50, 150, 300}}
        \cup {Mate(IF turn = WHITE THEN 1 ELSE -1, turn)}

\* The arguments of a live check: who moves, the move played, and what
\* engine.analyse answers before it, with the mover to move, and after it,
\* with the other side to move; hanging_warning is whether
\* the first warning of analyze_tactics on the position after the move is
\* a hanging piece; deck is how making the review card goes: "saved" when
\* get_review_manager and create_blunder_card return, "save_fails" when
\* save() raises after add_card has put the card in the deck of the
\* manager, "no_manager" when get_review_manager raises.
LiveArgs ==
    UNION {[is_white : {w},
            move_san : {"Nf3", "Qxd5"},
            score_before : LiveScores(w),
            score_after : LiveScores(~w),
            hanging_warning : BOOLEAN,
            deck : {"saved", "save_fails", "no_manager"}] : w \in BOOLEAN}

AnswerBefore(a) == [pv |-> Some(PvMove("Nf3")), score |-> a.score_before]

AnswerAfter(a) == [pv |-> Some(PvMove("Nf3")), score |-> a.score_after]

\* analysis.py lines 400-404, main.py lines 1555-1559: the loss of the
\* mover in centipawns.
EvalLoss(is_white, eval_before, eval_after) ==
    FMulInt(FSub(FromSide(is_white, eval_before), FromSide(is_white, eval_after)), 100)

\* analysis.py lines 362-410: (is_blunder, best_move, eval_loss), the loss
\* in centipawns.
check_blunder(engine, a, threshold) ==
    LET none == <<FALSE, None, Float(0)>>
        Returned3(best_move_san, eval_loss, is_blunder) ==
            <<is_blunder,
              IF is_blunder /\ a.move_san # best_move_san
              THEN Some(best_move_san) ELSE None,
              eval_loss>>
        Compared(best_move_san, eval_loss) ==
            Returned3(best_move_san, eval_loss, FGt(eval_loss, Float(threshold)))
        Asked(result_before, result_after) ==
            IF result_before = None THEN none
            ELSE IF result_after = None THEN none
            ELSE Compared(result_before.move,
                          EvalLoss(a.is_white, parse_eval(result_before.score),
                                   parse_eval(result_after.score)))
    IN  IF ~is_running(engine) THEN none
        ELSE Asked(get_best_move(engine, AnswerBefore(a)),
                   get_best_move(engine, AnswerAfter(a)))

\* main.py lines 1519-1621: the kind of feedback returned ("none" for
\* None), whether the call put a review card in the deck of the manager and
\* whether it wrote the deck to the file.  For a blunder the feedback is
\* returned whether or not making the card raised (lines 1581-1594);
\* add_card puts the card in the deck before it saves
\* (spaced_repetition.py lines 203-212).  float() raises on a mate score
\* and the handler returns None.
analyze_player_move(engine, a) ==
    LET quiet == [feedback |-> "none", card |-> FALSE, on_file |-> FALSE]
        Feedback(best_move_san, eval_loss) ==
            LET played_is_best == a.move_san = best_move_san
            IN  IF FGt(eval_loss, Float(200))
                THEN [feedback |-> "blunder", card |-> a.deck # "no_manager",
                      on_file |-> a.deck = "saved"]
                ELSE IF FGt(eval_loss, Float(100))
                THEN [feedback |-> "mistake", card |-> FALSE, on_file |-> FALSE]
                ELSE IF FGt(eval_loss, Float(50)) /\ ~played_is_best
                THEN [feedback |-> "inaccuracy", card |-> FALSE, on_file |-> FALSE]
                ELSE IF a.hanging_warning
                THEN [feedback |-> "hanging", card |-> FALSE, on_file |-> FALSE]
                ELSE quiet
        Asked(result_before, result_after) ==
            IF result_before = None THEN quiet
            ELSE IF ~IsFloatLiteral(result_before.score) THEN quiet
            ELSE IF result_after = None THEN quiet
            ELSE IF ~IsFloatLiteral(result_after.score) THEN quiet
            ELSE Feedback(result_before.move,
                          EvalLoss(a.is_white, FloatValue(result_before.score),
                                   FloatValue(result_after.score)))
    IN  IF ~is_running(engine) THEN quiet
        ELSE Asked(get_best_move(engine, AnswerBefore(a)),
                   get_best_move(engine, AnswerAfter(a)))

gameLocals ==
    <<pgn_text, game, board, moves_analysis, counters, critical_moments,
      move_number, prev_eval, it, queries, ret, evaluator, results>>

InitLive ==
    /\ pc = "live"
    /\ cm_args \in LiveArgs
    /\ cm_result = [check_blunder |-> None, analyze_player_move |-> None]
    /\ GameIdle
    /\ TacticsIdle
    /\ ConcIdle

\* check_blunder(board_before, move) with the default threshold.
CheckBlunder ==
    /\ pc = "live"
    /\ cm_result.check_blunder = None
    /\ \E started \in BOOLEAN :
          LET engine == get_engine(_engine, started)
          IN  /\ _engine' = engine
              /\ cm_result' = [cm_result EXCEPT !.check_blunder =
                     Some(check_blunder(engine, cm_args, MISTAKE_THRESHOLD))]
    /\ UNCHANGED <<pc, cm_args, gameLocals, tacticsVars, concVars>>

\* analyze_player_move(board_before, move_san).
AnalyzePlayerMove ==
    /\ pc = "live"
    /\ cm_result.analyze_player_move = None
    /\ \E started \in BOOLEAN :
          LET engine == get_engine(_engine, started)
          IN  /\ _engine' = engine
              /\ cm_result' = [cm_result EXCEPT !.analyze_player_move =
                     Some(analyze_player_move(engine, cm_args))]
    /\ UNCHANGED <<pc, cm_args, gameLocals, tacticsVars, concVars>>

NextLive == CheckBlunder \/ AnalyzePlayerMove

SpecLive == InitLive /\ [][NextLive]_vars

\* Both live checks have run, on a running engine.
LiveChecked ==
    /\ pc = "live"
    /\ cm_result.check_blunder # None
    /\ cm_result.analyze_player_move # None
    /\ is_running(_engine)

\* What analyze_game makes of the same move with the same evaluations
\* before and after it (lines 223-244), the move being no sacrifice.
GameClassification(a) ==
    LET eval_before == parse_eval(_format_score(a.score_before))
        eval_after == parse_eval(_format_score(a.score_after))
        played_is_best == a.move_san = "Nf3"
        is_only_good_move ==
            /\ played_is_best
            /\ FLt(eval_before, Float(-100))
            /\ FGt(eval_after, Float(-50))
    IN  classify_move(EvalChange(a.is_white, eval_after, eval_before),
                      ~played_is_best, FALSE, eval_before, eval_after,
                      is_only_good_move)

\* C30: when no brilliant rule applies, check_blunder with its default
\* threshold reports a blunder exactly when analyze_game classifies the
\* same move with the same evaluations as mistake or blunder, and the
\* blunder, mistake and inaccuracy feedback of analyze_player_move goes
\* with the classifications blunder, mistake and inaccuracy.
C30_LiveChecksAgreeWithClassifier ==
    (LiveChecked /\ GameClassification(cm_args) # "brilliant") =>
        LET classification == GameClassification(cm_args)
            is_blunder == Value(cm_result.check_blunder)[1]
            feedback == Value(cm_result.analyze_player_move).feedback
        IN  /\ is_blunder <=> classification \in {"mistake", "blunder"}
            /\ feedback = "blunder" <=> classification = "blunder"
            /\ feedback = "mistake" <=> classification = "mistake"
            /\ feedback = "inaccuracy" => classification = "inaccuracy"

====
